---------------------------- MODULE Spec2Model ----------------------------
(***************************************************************************)
(* YT_Analytics: the collection-and-aggregation pipeline of main.py (the   *)
(* concurrent variant) and the collector of the sequential scripts.        *)
(*                                                                         *)
(* Ten specifications share the definitions below:                        *)
(*   SpecCollector  one playlist collection, one page request per step;    *)
(*   SpecFetch      fetch_all_video_stats, one statistics batch per step;  *)
(*   Spec           a whole run of main(): task preparation, the worker    *)
(*                  pool, the merge loop, the fetch, the report, the save; *)
(*   FairSpec       Spec with workers and main thread scheduled fairly;    *)
(*   SpecParse      parse_channel_map on every string of the bounds;       *)
(*   SpecRuns       successive runs of main.py on one store;               *)
(*   SpecSequential a run of list_all_videos.py's main();                  *)
(*   SpecPool       the discovery phase of main() with more tasks than     *)
(*                  workers;                                               *)
(*   SpecTop        find_top_video_by_stats of top_video_report.py;        *)
(*   SpecReport     the third pass and the save on every accumulator of    *)
(*                  the bounds.                                            *)
(***************************************************************************)
EXTENDS Integers, Sequences, FiniteSets, TLC

VARIABLES
    \* ---- the remote data source and the configuration (fixed by Init)
    map_string,           \* YT_CHANNEL_MAP_STR: a sequence of characters
    channel_map,          \* parse_channel_map's result: sequence of [name, id]
    remote,               \* playlist id -> the playlist's sequence of responses
    build_fails,          \* task numbers whose build() of a client raises
    csv,                  \* the output store: [exists, header, rows]
    \* ---- one collection (get_video_ids_from_playlist)
    col,                  \* the collector's frame: see NewCollector
    \* ---- main()
    pc,                   \* position of the main thread
    tasks,                \* the prepared task tuples
    fut,                  \* per task: [st, result] of its future
    handled,              \* per task: how often the merge loop processed it
    reported,             \* per task: the line the merge loop printed for it
    all_video_id_details, \* the merged discovery list
    \* ---- fetch_all_video_stats
    fetch,                \* the fetch frame: see NewFetch
    all_stats,            \* its return value
    \* ---- the report
    all_channels_data     \* the rows built by the third pass

vars == <<map_string, channel_map, remote, build_fails, csv, col, pc, tasks, fut, handled,
          reported, all_video_id_details, fetch, all_stats, all_channels_data>>

-----------------------------------------------------------------------------
(* Python values *)

\* None, for each kind of value that may be None.
None == "None"          \* a string
NoToken == 0            \* a continuation token (tokens are 1, 2, ...)
NoError == <<>>         \* an error text
NoDetail == 0           \* a position in a list (positions are 1, 2, ...)

Range(s) == {s[i] : i \in 1..Len(s)}

Min(a, b) == IF a <= b THEN a ELSE b

\* All sequences over S of length at most n.
SeqsUpTo(S, n) == UNION {[1..k -> S] : k \in 0..n}

\* dict.get(k, default)
DictGet(d, k, default) == IF k \in DOMAIN d THEN d[k] ELSE default

\* d[k] = v
DictSet(d, k, v) == (k :> v) @@ d

EmptyDict == [x \in {} |-> None]

TruthyAlways(x) == FALSE

\* "not x" for a list or a dictionary x: it is empty.
Falsy(x) == x = <<>>

\* A loop over the positions lo..hi in order: state := Step(state, k) for
\* k = lo, lo + 1, ..., hi.  (The range is halved, and the state after the
\* first half is computed before the second half starts, so that the
\* evaluation nests only logarithmically deep; the order of the steps is the
\* loop's.)
RECURSIVE ForRange(_, _, _, _)
ForRange(Step(_, _), lo, hi, state) ==
    IF lo > hi THEN state
    ELSE IF lo = hi THEN Step(state, lo)
    ELSE LET mid == (lo + hi) \div 2
             left == ForRange(Step, lo, mid, state)
         IN  IF left = left THEN ForRange(Step, mid + 1, hi, left) ELSE left

-----------------------------------------------------------------------------
(* Bounds of the model *)

\* Items of one generic playlist, over all its pages.
MaxItems == 3
\* Pages of one generic playlist.
MaxPages == 2
\* Length of a generic (small) input list of fetch_all_video_stats.
MaxInput == 3
\* View sum and video count of the accumulators given to the third pass.
MaxViews == 60
MaxCount == 40
\* Length of a configuration string.
MaxString == 7
\* Number of rows in the store after which no further run is started.
MaxRuns == 3
\* Number of channels of the configuration that fills the worker pool.
MaxChannels == 11

-----------------------------------------------------------------------------
(* Time.  publishedAt is an ISO-8601 string; the model keeps the hour and  *)
(* the zone designator of the string, and a malformed string.              *)

\* start_date = now - YT_DAYS_TO_ANALYZE days, in hours UTC.
start_date == 2

\* A publishedAt string fromisoformat cannot parse.
Malformed == [t |-> 0, zone |-> "malformed"]

\* publishedAt strings: hour t with designator "Z" or "+01:00".
PubStrs == {[t |-> 1, zone |-> "Z"], [t |-> 2, zone |-> "Z"],
            [t |-> 3, zone |-> "Z"], [t |-> 3, zone |-> "+01:00"]}

\* datetime.fromisoformat(s.replace('Z', '+00:00')) as hours UTC; the
\* call raises ValueError on a malformed string.
ParseRaises(s) == s.zone \notin {"Z", "+00:00", "+01:00"}

ParsePublishedAt(s) ==
    LET iso == IF s.zone = "Z" THEN [s EXCEPT !.zone = "+00:00"] ELSE s
    IN  IF iso.zone = "+00:00" THEN iso.t ELSE iso.t - 1

InWindowStrict(published_at, cutoff) == published_at > cutoff

\* if published_at >= start_date
InWindow(published_at, cutoff) == published_at >= cutoff

-----------------------------------------------------------------------------
(* Errors.  str(e) is a sequence of words; the code tests whether one of   *)
(* them is "playlistNotFound".                                             *)

ErrNotFound == <<"HttpError", "404", "playlistNotFound">>
ErrQuota    == <<"HttpError", "403", "quotaExceeded">>
ErrParse    == <<"ValueError", "Invalid", "isoformat", "string">>
ErrBuild    == <<"HttpError", "400", "keyInvalid">>

\* "playlistNotFound" in str(e)
IsNotFound(e) == \E i \in 1..Len(e) : e[i] = "playlistNotFound"

-----------------------------------------------------------------------------
(* The remote "list playlist items" operation.  A playlist is the sequence *)
(* of its responses: response 1 answers the request without a token,       *)
(* response k the request with token k.  A response is a page              *)
(* [kind, items, nextPageToken] or an error [kind, error].                 *)

Page(items, next) == [kind |-> "page", items |-> items, nextPageToken |-> next]
Error(e) == [kind |-> "error", error |-> e]

Item(id, pub) == [videoId |-> id, publishedAt |-> pub]

\* youtube.playlistItems().list(..., pageToken=token).execute()
ListPlaylistItems(playlist, token) ==
    LET k == IF token = NoToken THEN 1 ELSE token
    IN  IF k \in 1..Len(playlist) THEN playlist[k] ELSE Error(ErrNotFound)

\* The pages of item sequence s cut at the positions cuts (non-decreasing),
\* every page but the last carrying the token of the next one; `ending` is
\* NoError (the last page has no token) or the error that answers the request
\* after the last page.
RECURSIVE PagesOf(_, _, _, _)
PagesOf(s, cuts, from, k) ==
    IF k > Len(cuts)
    THEN <<SubSeq(s, from, Len(s))>>
    ELSE <<SubSeq(s, from, cuts[k])>> \o PagesOf(s, cuts, cuts[k] + 1, k + 1)

MakePlaylist(s, cuts, ending) ==
    LET chunks == PagesOf(s, cuts, 1, 1)
        n == Len(chunks)
    IN  IF ending = NoError
        THEN [k \in 1..n |-> Page(chunks[k], IF k < n THEN k + 1 ELSE NoToken)]
        ELSE [k \in 1..(n + 1) |->
                IF k <= n THEN Page(chunks[k], k + 1) ELSE Error(ending)]

-----------------------------------------------------------------------------
(* get_video_ids_from_playlist (main.py) and get_all_video_ids_from_playlist*)
(* (list_all_videos.py, top_video_report.py).  The two differ in one line: *)
(* on an error other than playlistNotFound main.py re-raises, the          *)
(* sequential scripts print and break.                                     *)

Variants == {"main", "sequential"}

\* video_ids = []; next_page_token = None
NewCollector(playlist, variant) ==
    [playlist |-> playlist, variant |-> variant,
     video_ids |-> <<>>, next_page_token |-> NoToken,
     status |-> "loop",        \* loop | returned | raised
     error |-> NoError,
     requests |-> <<>>]        \* the tokens of the requests issued, in order

\* The for loop over a page's items: the ids appended, and whether the
\* parse of an item raised (the ids appended before it are kept in video_ids).
ScanItem(scan, item) ==
    IF scan.raised THEN scan
    ELSE IF ParseRaises(item.publishedAt) THEN [scan EXCEPT !.raised = TRUE]
    ELSE IF InWindow(ParsePublishedAt(item.publishedAt), start_date)
         THEN [scan EXCEPT !.video_ids = Append(@, item.videoId)]
         ELSE scan

\* The scan of a page given up at its first item published before the cutoff.
ScanItemsUntilOld(items, video_ids) ==
    LET old == {k \in 1..Len(items) :
                   /\ ~ParseRaises(items[k].publishedAt)
                   /\ ~InWindow(ParsePublishedAt(items[k].publishedAt), start_date)}
        n == IF old = {} THEN Len(items)
             ELSE (CHOOSE k \in old : \A j \in old : k <= j) - 1
    IN  ForRange(LAMBDA scan, k : ScanItem(scan, items[k]), 1, n,
                 [video_ids |-> video_ids, raised |-> FALSE])

ScanItems(items, video_ids) ==
    ForRange(LAMBDA scan, k : ScanItem(scan, items[k]), 1, Len(items),
             [video_ids |-> video_ids, raised |-> FALSE])

OnExceptionDiscard(c, e) ==
    IF IsNotFound(e) THEN [c EXCEPT !.status = "returned", !.video_ids = <<>>]
    ELSE IF c.variant = "main"
         THEN [c EXCEPT !.status = "raised", !.error = e]
         ELSE [c EXCEPT !.status = "returned"]

\* Every error but playlistNotFound is raised again, in either script.
OnExceptionRaise(c, e) ==
    IF IsNotFound(e) THEN [c EXCEPT !.status = "returned"]
    ELSE [c EXCEPT !.status = "raised", !.error = e]

\* except Exception as e: break on playlistNotFound, else raise (main.py) or
\* print and break (the sequential scripts).
OnException(c, e) ==
    IF IsNotFound(e) THEN [c EXCEPT !.status = "returned"]
    ELSE IF c.variant = "main"
         THEN [c EXCEPT !.status = "raised", !.error = e]
         ELSE [c EXCEPT !.status = "returned"]

\* A continuation token that passes over the page after the one returned.
NextPageTokenSkipping(response) ==
    IF response.nextPageToken = NoToken THEN NoToken
    ELSE response.nextPageToken + 1

\* next_page_token = response.get('nextPageToken')
NextPageToken(response) == response.nextPageToken

\* One iteration of the while loop: one page request and its handling.
CollectorStep(c) ==
    LET response == ListPlaylistItems(c.playlist, c.next_page_token)
        c1 == [c EXCEPT !.requests = Append(@, c.next_page_token)]
    IN  IF response.kind = "error" THEN OnException(c1, response.error)
        ELSE LET scan == ScanItems(response.items, c1.video_ids)
                 c2 == [c1 EXCEPT !.video_ids = scan.video_ids]
             IN  IF scan.raised THEN OnException(c2, ErrParse)
                 ELSE LET c3 == [c2 EXCEPT !.next_page_token = NextPageToken(response)]
                      IN  IF c3.next_page_token = NoToken
                          THEN [c3 EXCEPT !.status = "returned"]
                          ELSE c3

\* The whole call: the loop run to its return or raise.
RECURSIVE RunCollector(_)
RunCollector(c) == IF c.status = "loop" THEN RunCollector(CollectorStep(c)) ELSE c

GetVideoIdsFromPlaylist(playlist, variant) == RunCollector(NewCollector(playlist, variant))

-----------------------------------------------------------------------------
(* The remote "list video statistics" operation.  A response is an error   *)
(* or [kind, items]; an item is [id, viewCount], viewCount a number, absent *)
(* (statistics without a viewCount) or unreadable (item['statistics'] or   *)
(* int() raises).                                                          *)

Views(n) == [kind |-> "count", n |-> n]
NoViewCount == [kind |-> "absent", n |-> 0]
Unreadable == [kind |-> "unreadable", n |-> 0]
Omit == [kind |-> "omit", n |-> 0]

\* the platform's batch size: range(0, len(all_video_ids), 50), [i:i+50]
BatchSize == 50

StatsOk(items) == [kind |-> "ok", items |-> items]
StatItem(id, vc) == [id |-> id, viewCount |-> vc]

\* An item of an id that no request holds.
Stranger == StatItem(999, Views(50))

\* What the remote may answer for an id of the request: Omit (not found), or
\* the viewCount of its item.  The ids in FlakyIds vary; every other id is
\* always found, with the views DefaultViews.
FlakyIds == {1, 2, 51}

DefaultViews == Views(200)

FieldChoices(id) ==
    CASE id = 1  -> {Omit, Views(100), Views(200), Unreadable}
      [] id = 2  -> {Omit, NoViewCount, Views(300)}
      [] OTHER   -> {Omit, DefaultViews}

Answers(ids) ==
    {choice \in [ids \cap FlakyIds -> UNION {FieldChoices(id) : id \in FlakyIds}] :
        \A id \in DOMAIN choice : choice[id] \in FieldChoices(id)}

AnswerFor(choice, id) ==
    IF id \in DOMAIN choice THEN choice[id] ELSE DefaultViews

\* The ids of a request without repetition, in the order of first occurrence.
Dedup(ids) ==
    ForRange(LAMBDA acc, k : IF \E j \in 1..(k - 1) : ids[j] = ids[k]
                             THEN acc ELSE Append(acc, ids[k]),
             1, Len(ids), <<>>)

ItemsFor(ids, choice) ==
    ForRange(LAMBDA acc, k : IF AnswerFor(choice, ids[k]) = Omit THEN acc
                             ELSE Append(acc, StatItem(ids[k], AnswerFor(choice, ids[k]))),
             1, Len(ids), <<>>)

\* youtube.videos().list(part="statistics", id=",".join(chunk_ids)).execute():
\* every answer the remote may give.  It raises, or returns one item per found
\* id (per distinct id, or per occurrence in the request: the platform's
\* handling of a repeated id is not specified), possibly with an item of an id
\* that was not requested.
StatsResponses(chunk_ids) ==
    {Error(ErrQuota)} \cup
    {StatsOk(ItemsFor(ids, choice) \o extra) :
        ids \in {Dedup(chunk_ids), chunk_ids},
        choice \in Answers(Range(chunk_ids)),
        extra \in {<<>>, <<Stranger>>}}

-----------------------------------------------------------------------------
(* fetch_all_video_stats.  The accumulator is the pair stats_dict (key ->  *)
(* [view_count, video_count]) and video_count_dict (key -> count), keyed   *)
(* by <<channel_name, video_type>>.                                        *)

Detail(id, channel_name, video_type) ==
    [id |-> id, channel_name |-> channel_name, video_type |-> video_type]

KeyOf(detail) == <<detail.channel_name, detail.video_type>>

\* stats_dict = {}; video_count_dict = {}; all_video_ids = [item['id'] ...]
NewFetch(video_id_details) ==
    [video_id_details |-> video_id_details,
     all_video_ids |-> [k \in 1..Len(video_id_details) |-> video_id_details[k].id],
     i |-> 0,                   \* the for loop's next offset
     stats_dict |-> EmptyDict,
     video_count_dict |-> EmptyDict,
     requests |-> <<>>,         \* the chunks requested, in order
     responses |-> <<>>,        \* the remote's answer to each request
     outcomes |-> <<>>,         \* per request: "ok", "failed" or "raised"
     before |-> [stats_dict |-> EmptyDict, video_count_dict |-> EmptyDict],
                                \* the accumulator before the last request
     status |-> IF Falsy(video_id_details) THEN "empty" ELSE "loop"]

ChunkOverlap(ids, i) ==
    SubSeq(ids, IF i = 0 THEN 1 ELSE i, Min(i + BatchSize, Len(ids)))

\* all_video_ids[i:i+50]
Chunk(ids, i) == SubSeq(ids, i + 1, Min(i + BatchSize, Len(ids)))

\* next((detail for detail in video_id_details if detail['id'] == video_id), None)
\* as the position of that detail, NoDetail for None.
FirstDetail(details, video_id) ==
    LET hits == {k \in 1..Len(details) : details[k].id = video_id}
    IN  IF hits = {} THEN NoDetail
        ELSE CHOOSE k \in hits : \A j \in hits : k <= j

AddViewsOverwrite(stats_dict, key, view_count) ==
    LET old == DictGet(stats_dict, key, [view_count |-> 0, video_count |-> 0])
    IN  DictSet(stats_dict, key, [old EXCEPT !.view_count = view_count])

\* if key not in stats_dict: stats_dict[key] = {0, 0}
\* stats_dict[key]['view_count'] += view_count
AddViews(stats_dict, key, view_count) ==
    LET old == DictGet(stats_dict, key, [view_count |-> 0, video_count |-> 0])
    IN  DictSet(stats_dict, key, [old EXCEPT !.view_count = @ + view_count])

\* One item of the response: view_count = int(item['statistics'].get(
\* 'viewCount', 0)) may raise; the id is added to processed_ids_in_chunk and
\* the views to the key of the first detail with that id, if there is one.
ScanStat(scan, item, details) ==
    IF scan.raised THEN scan
    ELSE IF item.viewCount = Unreadable THEN [scan EXCEPT !.raised = TRUE]
    ELSE LET video_id == item.id
             view_count == IF item.viewCount = NoViewCount THEN 0
                           ELSE item.viewCount.n
             original_detail == FirstDetail(details, video_id)
         IN  [scan EXCEPT
                !.processed = @ \cup {video_id},
                !.stats_dict =
                    IF original_detail = NoDetail THEN @
                    ELSE AddViews(@, KeyOf(details[original_detail]), view_count)]

\* for item in videos_response.get("items", []): the stats_dict and the set
\* processed_ids_in_chunk after the loop, and whether an item raised (the
\* updates made before it stay: the dictionary is updated in place).
ScanStats(items, details, stats_dict) ==
    ForRange(LAMBDA scan, k : ScanStat(scan, items[k], details), 1, Len(items),
             [stats_dict |-> stats_dict, processed |-> {}, raised |-> FALSE])

CountDiscovered(details, processed, video_count_dict) ==
    ForRange(LAMBDA counts, k :
                DictSet(counts, KeyOf(details[k]),
                        DictGet(counts, KeyOf(details[k]), 0) + 1),
             1, Len(details), video_count_dict)

\* for detail in video_id_details: if detail['id'] in processed_ids_in_chunk:
\*     video_count_dict[key] += 1
CountProcessed(details, processed, video_count_dict) ==
    ForRange(LAMBDA counts, k :
                IF details[k].id \in processed
                THEN DictSet(counts, KeyOf(details[k]),
                             DictGet(counts, KeyOf(details[k]), 0) + 1)
                ELSE counts,
             1, Len(details), video_count_dict)

OnBatchErrorStop(f) == [f EXCEPT !.i = Len(f.all_video_ids)]

\* The failed batch is requested again.
OnBatchErrorRetry(f) == [f EXCEPT !.i = @ - BatchSize]

\* except Exception as e: print(...) and continue with the next batch
OnBatchError(f) == f

\* One iteration of the for loop: one request for the chunk at offset i and
\* the processing of its response.
FetchStep(f, response) ==
    LET chunk_ids == Chunk(f.all_video_ids, f.i)
        f1 == [f EXCEPT !.requests = Append(@, chunk_ids),
                        !.responses = Append(@, response),
                        !.before = [stats_dict |-> f.stats_dict,
                                    video_count_dict |-> f.video_count_dict],
                        !.i = @ + BatchSize]
    IN  IF response.kind = "error"
        THEN [OnBatchError(f1) EXCEPT !.outcomes = Append(@, "failed")]
        ELSE LET scan == ScanStats(response.items, f.video_id_details, f.stats_dict)
                 f2 == [f1 EXCEPT !.stats_dict = scan.stats_dict]
             IN  IF scan.raised
                 THEN [OnBatchError(f2) EXCEPT !.outcomes = Append(@, "raised")]
                 ELSE [f2 EXCEPT
                         !.video_count_dict =
                             CountProcessed(f.video_id_details, scan.processed, @),
                         !.outcomes = Append(@, "ok")]

\* for key, count in video_count_dict.items(): merge the counts into
\* stats_dict, creating {0, count} for a key that has no statistics.
Combine(stats_dict, video_count_dict) ==
    [key \in (DOMAIN stats_dict) \cup (DOMAIN video_count_dict) |->
        IF key \in DOMAIN video_count_dict
        THEN IF key \in DOMAIN stats_dict
             THEN [stats_dict[key] EXCEPT !.video_count = video_count_dict[key]]
             ELSE [view_count |-> 0, video_count |-> video_count_dict[key]]
        ELSE stats_dict[key]]

\* The function's return value once the loop is over.
FetchResult(f) ==
    IF f.status = "empty" THEN EmptyDict
    ELSE Combine(f.stats_dict, f.video_count_dict)

-----------------------------------------------------------------------------
(* Values of the variables a specification does not use. *)

IdleCollector == [NewCollector(<<>>, "main") EXCEPT !.status = "idle"]
IdleFetch == [NewFetch(<<>>) EXCEPT !.status = "idle"]
NoStore == [exists |-> FALSE, header |-> 0, rows |-> <<>>]

-----------------------------------------------------------------------------
(* SpecCollector: one collection against every playlist of the bounds.     *)

ItemUniverse ==
    {Item(1, [t |-> 1, zone |-> "Z"]),        \* before the cutoff
     Item(1, [t |-> 2, zone |-> "Z"]),        \* exactly at the cutoff
     Item(2, [t |-> 3, zone |-> "Z"]),        \* after the cutoff
     Item(2, [t |-> 2, zone |-> "+01:00"]),   \* 01:00 UTC: before the cutoff
     Item(1, [t |-> 3, zone |-> "+01:00"]),   \* 02:00 UTC: at the cutoff
     Item(2, Malformed)}

Endings == {NoError, ErrNotFound, ErrQuota}

NonDecreasing(cuts) == \A j \in 1..(Len(cuts) - 1) : cuts[j] <= cuts[j + 1]

\* The ways to cut an item sequence into at most MaxPages pages.
CutsOf(s) ==
    {c \in SeqsUpTo(0..Len(s), MaxPages - 1) : NonDecreasing(c)}

\* A playlist whose first request already fails.
FailingPlaylist(e) == <<Error(e)>>

\* The collection starts on a playlist whose first request fails, or on the
\* pages of an item sequence of the bounds, with either script's collector.
InitCollector ==
    /\ \E variant \in Variants :
          \/ \E e \in Endings \ {NoError} :
                col = NewCollector(FailingPlaylist(e), variant)
          \/ \E s \in SeqsUpTo(ItemUniverse, MaxItems) :
                \E cuts \in CutsOf(s), ending \in Endings :
                    col = NewCollector(MakePlaylist(s, cuts, ending), variant)
    /\ map_string = <<>> /\ channel_map = <<>> /\ remote = EmptyDict
    /\ build_fails = {}
    /\ csv = NoStore /\ pc = "collector" /\ tasks = <<>> /\ fut = <<>>
    /\ handled = <<>> /\ reported = <<>> /\ all_video_id_details = <<>>
    /\ fetch = IdleFetch /\ all_stats = EmptyDict /\ all_channels_data = <<>>

\* One iteration of the collector's while loop.
CollectPage ==
    /\ col.status = "loop"
    /\ col' = CollectorStep(col)
    /\ UNCHANGED <<map_string, channel_map, remote, build_fails, csv, pc, tasks, fut, handled,
                   reported, all_video_id_details, fetch, all_stats,
                   all_channels_data>>

NextCollector == CollectPage

SpecCollector == InitCollector /\ [][NextCollector]_vars

-----------------------------------------------------------------------------
(* SpecFetch: fetch_all_video_stats on every input list of the bounds.     *)

SmallDetails ==
    {Detail(id, key[1], key[2]) :
        id \in {1, 2},
        key \in {<<"A", "NORMAL">>, <<"A", "SHORT">>, <<"B", "NORMAL">>}}

\* ids 1..n of one playlist, in order.
BigList(n, channel_name, video_type) ==
    [k \in 1..n |-> Detail(k, channel_name, video_type)]

\* Inputs of more than one batch: exactly one batch, one more id, three
\* batches, and an id repeated across two batches with the same and with
\* another tag.
BigInputs ==
    {BigList(BatchSize, "A", "NORMAL"),
     BigList(BatchSize + 1, "A", "NORMAL"),
     BigList(2 * BatchSize + 1, "A", "NORMAL"),
     BigList(BatchSize, "A", "NORMAL") \o <<Detail(1, "A", "NORMAL")>>,
     BigList(BatchSize, "A", "NORMAL") \o <<Detail(1, "B", "NORMAL")>>,
     <<Detail(2, "B", "SHORT")>> \o BigList(BatchSize, "A", "NORMAL")}

FetchInputs == SeqsUpTo(SmallDetails, MaxInput) \cup BigInputs

InitFetch ==
    /\ fetch \in {NewFetch(details) : details \in FetchInputs}
    /\ map_string = <<>> /\ channel_map = <<>> /\ remote = EmptyDict
    /\ build_fails = {}
    /\ csv = NoStore /\ pc = "fetch_all_video_stats" /\ tasks = <<>> /\ fut = <<>>
    /\ handled = <<>> /\ reported = <<>> /\ all_video_id_details = <<>>
    /\ col = IdleCollector /\ all_stats = EmptyDict /\ all_channels_data = <<>>

\* One iteration of the for loop over the batches: the request and the
\* remote's answer to it.
FetchBatch ==
    /\ fetch.status = "loop"
    /\ fetch.i < Len(fetch.all_video_ids)
    /\ \E response \in StatsResponses(Chunk(fetch.all_video_ids, fetch.i)) :
          fetch' = FetchStep(fetch, response)
    /\ UNCHANGED <<map_string, channel_map, remote, build_fails, csv, col, pc, tasks, fut,
                   handled, reported, all_video_id_details, all_stats,
                   all_channels_data>>

\* The end of the loop (or the early return on an empty input): the counts
\* are merged into stats_dict and the function returns.
FetchReturn ==
    /\ \/ fetch.status = "empty"
       \/ fetch.status = "loop" /\ fetch.i >= Len(fetch.all_video_ids)
    /\ fetch' = [fetch EXCEPT !.status = "returned"]
    /\ all_stats' = FetchResult(fetch)
    /\ UNCHANGED <<map_string, channel_map, remote, build_fails, csv, col, pc, tasks, fut,
                   handled, reported, all_video_id_details, all_channels_data>>

NextFetch == FetchBatch \/ FetchReturn

SpecFetch == InitFetch /\ [][NextFetch]_vars

-----------------------------------------------------------------------------
(* main(): the configuration and the preparation of the tasks.  A channel  *)
(* id is a sequence of characters; channel_map is the dictionary           *)
(* parse_channel_map returns, as the sequence of its items in insertion    *)
(* order (the names are distinct).                                         *)

UCa == <<"U", "C", "a">>
UCb == <<"U", "C", "b">>
XYc == <<"X", "Y", "c">>

Entry(name, id) == [name |-> name, id |-> id]

\* Every channel id taken as valid.
StartsWithAnything(channel_id) == TRUE

\* channel_id.startswith("UC")
StartsWithUC(channel_id) ==
    Len(channel_id) >= 2 /\ channel_id[1] = "U" /\ channel_id[2] = "C"

\* playlist_id_suffix = channel_id[2:]
Suffix(channel_id) == SubSeq(channel_id, 3, Len(channel_id))

\* The keys of the playlists dictionary, in its order.
VideoTypes == <<"NORMAL", "SHORT", "LIVE">>

PlaylistPrefix(video_type) ==
    CASE video_type = "NORMAL" -> <<"U", "U", "L", "F">>
      [] video_type = "SHORT"  -> <<"U", "U", "S", "H">>
      [] video_type = "LIVE"   -> <<"U", "U", "L", "V">>

\* f"UULF{playlist_id_suffix}", f"UUSH{...}", f"UULV{...}"
PlaylistId(channel_id, video_type) ==
    PlaylistPrefix(video_type) \o Suffix(channel_id)

\* (playlist_id, start_date, channel_name, video_type); start_date is the
\* same in every task.
Task(playlist_id, channel_name, video_type) ==
    [playlist_id |-> playlist_id, channel_name |-> channel_name,
     video_type |-> video_type]

\* The tasks of one entry of the map: none for an id that does not start
\* with "UC", else one per video type.
TasksOf(entry) ==
    IF ~StartsWithUC(entry.id) THEN <<>>
    ELSE [k \in 1..Len(VideoTypes) |->
            Task(PlaylistId(entry.id, VideoTypes[k]), entry.name, VideoTypes[k])]

\* for channel_name, channel_id in channel_map.items(): ... tasks.append(...)
RECURSIVE PrepareTaskList(_, _)
PrepareTaskList(cm, k) ==
    IF k > Len(cm) THEN <<>>
    ELSE TasksOf(cm[k]) \o PrepareTaskList(cm, k + 1)

-----------------------------------------------------------------------------
(* parse_channel_map.  A string is a sequence of characters; the dictionary *)
(* it returns is the sequence of its items in insertion order.             *)

\* s.split(sep): the pieces of s between the occurrences of sep.
RECURSIVE Split(_, _)
Split(s, sep) ==
    IF \A i \in 1..Len(s) : s[i] # sep THEN <<s>>
    ELSE LET i == CHOOSE i \in 1..Len(s) :
                     s[i] = sep /\ \A j \in 1..(i - 1) : s[j] # sep
         IN  <<SubSeq(s, 1, i - 1)>> \o Split(SubSeq(s, i + 1, Len(s)), sep)

RECURSIVE LStrip(_)
LStrip(s) == IF s # <<>> /\ s[1] = " " THEN LStrip(Tail(s)) ELSE s

RECURSIVE RStrip(_)
RStrip(s) ==
    IF s # <<>> /\ s[Len(s)] = " " THEN RStrip(SubSeq(s, 1, Len(s) - 1)) ELSE s

\* s.strip()
Strip(s) == RStrip(LStrip(s))

DictPutAppend(d, name, id) == Append(d, Entry(name, id))

\* channel_map[name] = channel_id: the value of an existing key is replaced
\* in its place, a new key goes to the end.
DictPut(d, name, id) ==
    IF \E k \in 1..Len(d) : d[k].name = name
    THEN [k \in 1..Len(d) |-> IF d[k].name = name THEN Entry(name, id) ELSE d[k]]
    ELSE Append(d, Entry(name, id))

\* for entry in entries: parts = entry.split(':'); if len(parts) == 2: ...
RECURSIVE ParseEntries(_, _, _)
ParseEntries(entries, k, cm) ==
    IF k > Len(entries) THEN cm
    ELSE LET parts == Split(entries[k], ":")
         IN  ParseEntries(entries, k + 1,
                          IF Len(parts) = 2
                          THEN DictPut(cm, Strip(parts[1]), Strip(parts[2]))
                          ELSE cm)

ParseChannelMap(str) ==
    IF Falsy(str) THEN <<>>
    ELSE ParseEntries(Split(str, ","), 1, <<>>)

\* The cap on the pool size.
GlobalCap == 32

\* A pool without a worker.
MaxWorkersNone(n) == 0

\* A pool of len(tasks) + 4 workers, without the cap.
MaxWorkersUncapped(n) == n + 4

\* max_workers = min(32, len(tasks) + 4)
MaxWorkers(n) == Min(GlobalCap, n + 4)

-----------------------------------------------------------------------------
(* fetch_playlist_video_ids_task and the futures of the pool. *)

\* The playlist the remote holds under an id; an unknown id is not found.
RemotePlaylist(r, playlist_id) ==
    IF playlist_id \in DOMAIN r THEN r[playlist_id]
    ELSE <<Error(ErrNotFound)>>

Result(status, task, video_ids, error) ==
    [status |-> status, channel_name |-> task.channel_name,
     video_type |-> task.video_type, playlist_id |-> task.playlist_id,
     video_ids |-> video_ids, error |-> error]

FetchTaskLetsErrorsEscape(task, playlist, build_raises) ==
    IF build_raises THEN Result("raised", task, <<>>, ErrBuild)
    ELSE LET c == GetVideoIdsFromPlaylist(playlist, "main")
         IN  IF c.status = "raised" THEN Result("raised", task, <<>>, c.error)
             ELSE Result("success", task, c.video_ids, NoError)

\* A task that answers an error of the collection with a 'success' result
\* holding the ids collected before it.
FetchTaskKeepsCollected(task, playlist, build_raises) ==
    IF build_raises THEN Result("error", task, <<>>, ErrBuild)
    ELSE LET c == GetVideoIdsFromPlaylist(playlist, "main")
         IN  Result("success", task, c.video_ids, NoError)

\* The task's body: try: build(); get_video_ids_from_playlist(); return the
\* 'success' dictionary; except Exception: return the 'error' dictionary.
FetchPlaylistVideoIdsTask(task, playlist, build_raises) ==
    IF build_raises THEN Result("error", task, <<>>, ErrBuild)
    ELSE LET c == GetVideoIdsFromPlaylist(playlist, "main")
         IN  IF c.status = "raised" THEN Result("error", task, <<>>, c.error)
             ELSE Result("success", task, c.video_ids, NoError)

\* A future: pending (queued), running (a worker runs the task), done (the
\* result is set), yielded (as_completed has handed it to the loop).
NoResult == [status |-> "none", channel_name |-> "", video_type |-> "",
             playlist_id |-> <<>>, video_ids |-> <<>>, error |-> NoError]

Future(st, result) == [st |-> st, result |-> result]

\* executor.submit(fetch_playlist_video_ids_task, *task) for task in tasks
SubmitAll(ts) == [t \in 1..Len(ts) |-> Future("pending", NoResult)]

Running(f) == {t \in 1..Len(f) : f[t].st = "running"}

YieldAgain(f, t) == f

\* as_completed hands a finished future to the loop and drops it from its
\* pending set.
Yield(f, t) == [f EXCEPT ![t].st = "yielded"]

AsCompletedAny(f) == \E t \in 1..Len(f) : f[t].st = "yielded"

\* as_completed is exhausted: every future was yielded.
AsCompletedExhausted(f) == \A t \in 1..Len(f) : f[t].st = "yielded"

\* The line the merge loop prints for a result.
NoLine == [kind |-> "none", n |-> 0]

ReportLine(result) ==
    CASE result.status = "success" ->
            [kind |-> "found", n |-> Len(result.video_ids)]
      [] result.status = "error" /\ IsNotFound(result.error) ->
            [kind |-> "not_found", n |-> 0]
      [] result.status = "error" /\ ~IsNotFound(result.error) ->
            [kind |-> "error", n |-> 0]
      [] OTHER -> [kind |-> "exception", n |-> 0]

\* The merged list assigned, not extended: only the last result is kept.
MergeDetailsAssign(details, result) ==
    IF result.status = "success"
    THEN [k \in 1..Len(result.video_ids) |->
             Detail(result.video_ids[k], result.channel_name, result.video_type)]
    ELSE details

\* for video_id in video_ids: all_video_id_details.append({...})
MergeDetails(details, result) ==
    IF result.status = "success"
    THEN details \o [k \in 1..Len(result.video_ids) |->
                        Detail(result.video_ids[k], result.channel_name,
                               result.video_type)]
    ELSE details

-----------------------------------------------------------------------------
(* The report and the output store.  An average is kept in hundredths.     *)

today_date == "today"

\* The significand of a Python float (an IEEE 754 double) has 53 bits.
MantissaBits == 53

RECURSIVE BitLen(_)
BitLen(n) == IF n = 0 THEN 0 ELSE 1 + BitLen(n \div 2)

\* The float views / count against the exact quotient: 0 when the quotient
\* is a float, else -1 or 1 as the division rounded down or up (to nearest,
\* ties to even).  The quotient is developed bit by bit: r is the remainder,
\* k the number of significant bits so far, last the last of them.
RECURSIVE FloatSide(_, _, _, _)
FloatSide(r, count, k, last) ==
    IF r = 0 THEN 0
    ELSE LET bit == IF 2 * r >= count THEN 1 ELSE 0
             rest == 2 * r - count * bit
         IN  IF k = MantissaBits
             THEN IF bit = 1 /\ (rest # 0 \/ last = 1) THEN 1 ELSE -1
             ELSE FloatSide(rest, count, IF k > 0 \/ bit = 1 THEN k + 1 ELSE 0, bit)

RoundAvgDown(views, count) == (100 * views) \div count

\* round(views / count, 2) in hundredths.  round() gives the hundredth
\* nearest to the float views / count, a float exactly between two hundredths
\* going to the even one.  A quotient that is not a tie m/100 + 1/200 is
\* farther from every tie than the division's rounding error (for operands
\* below 2^32), so its nearest hundredth is also the float's; a tie that is a
\* float goes to the even hundredth; a tie that is no float goes to the side
\* the division rounded to.
RoundAvg(views, count) ==
    LET q == (100 * views) \div count
        r == (100 * views) % count
        side == FloatSide(views % count, count, BitLen(views \div count),
                          (views \div count) % 2)
    IN  IF 2 * r < count THEN q
        ELSE IF 2 * r > count THEN q + 1
        ELSE IF side = 1 THEN q + 1
        ELSE IF side = -1 THEN q
        ELSE IF q % 2 = 0 THEN q ELSE q + 1

StatsOfChannel(stats, channel_name, video_type) ==
    LET keys == {key \in DOMAIN stats : key[1] = channel_name}
    IN  IF keys = {} THEN [view_count |-> 0, video_count |-> 0]
        ELSE stats[CHOOSE key \in keys : TRUE]

\* stats = all_stats.get(key, {'view_count': 0, 'video_count': 0})
StatsOf(stats, channel_name, video_type) ==
    DictGet(stats, <<channel_name, video_type>>,
            [view_count |-> 0, video_count |-> 0])

CountAlwaysPositive(count) == TRUE

\* if count > 0
CountPositive(count) == count > 0

\* views / count raises ZeroDivisionError
DivisionRaises(views, count) == count = 0

\* The average of one category: the division is evaluated only when the
\* guard lets it.
AvgOf(stats, channel_name, video_type) ==
    LET s == StatsOf(stats, channel_name, video_type)
    IN  IF CountPositive(s.video_count)
        THEN RoundAvg(s.view_count, s.video_count) ELSE 0

\* Building the row of a channel evaluates a division that raises.
RowRaises(stats, channel_name) ==
    \E j \in 1..3 :
        LET s == StatsOf(stats, channel_name, <<"NORMAL", "SHORT", "LIVE">>[j])
        IN  CountPositive(s.video_count) /\ DivisionRaises(s.view_count, s.video_count)

\* channel_data: one row of the report, with the columns of column_order.
Row(date, channel_name, stats) ==
    [Date |-> date, ChannelName |-> channel_name,
     NORMAL_Count |-> StatsOf(stats, channel_name, "NORMAL").video_count,
     NORMAL_Views |-> StatsOf(stats, channel_name, "NORMAL").view_count,
     NORMAL_Avg_Views_Per_Video |-> AvgOf(stats, channel_name, "NORMAL"),
     SHORT_Count |-> StatsOf(stats, channel_name, "SHORT").video_count,
     SHORT_Views |-> StatsOf(stats, channel_name, "SHORT").view_count,
     SHORT_Avg_Views_Per_Video |-> AvgOf(stats, channel_name, "SHORT"),
     LIVE_Count |-> StatsOf(stats, channel_name, "LIVE").video_count,
     LIVE_Views |-> StatsOf(stats, channel_name, "LIVE").view_count,
     LIVE_Avg_Views_Per_Video |-> AvgOf(stats, channel_name, "LIVE")]

\* for channel_name in channel_map.keys(): all_channels_data.append(...)
BuildRows(cm, stats) ==
    [k \in 1..Len(cm) |-> Row(today_date, cm[k].name, stats)]

\* The entries of the map whose row raises while it is built.
RaisingRows(cm, stats) == {k \in 1..Len(cm) : RowRaises(stats, cm[k].name)}

\* The rows appended before the first row that raises.
RowsBeforeRaise(cm, stats) ==
    LET first == CHOOSE k \in RaisingRows(cm, stats) :
                    \A j \in RaisingRows(cm, stats) : k <= j
    IN  [k \in 1..(first - 1) |-> Row(today_date, cm[k].name, stats)]

\* df.to_csv(CSV_FILE, mode='w', header=True): the file is written anew.
WriteCsv(store, rows) == [exists |-> TRUE, header |-> 1, rows |-> rows]

\* df.to_csv(CSV_FILE, mode='a', header=not file_exists, index=False)
AppendToCsv(store, rows) ==
    [exists |-> TRUE,
     header |-> IF store.exists THEN store.header ELSE 1,
     rows |-> store.rows \o rows]

-----------------------------------------------------------------------------
(* Spec: a run of main() against the remotes and configurations below.     *)

Fresh == [t |-> 3, zone |-> "Z"]
Old == [t |-> 1, zone |-> "Z"]

\* A playlist of one page holding the ids, all published after the cutoff.
OnePage(ids) ==
    <<Page([k \in 1..Len(ids) |-> Item(ids[k], Fresh)], NoToken)>>

\* A playlist that returns no items.
EmptyPlaylist == <<Page(<<>>, NoToken)>>

NotFound == <<Error(ErrNotFound)>>
QuotaExceeded == <<Error(ErrQuota)>>

\* A playlist of BatchSize + 1 videos on two pages.
BigPlaylist ==
    <<Page([k \in 1..BatchSize |-> Item(k, Fresh)], 2),
      Page(<<Item(BatchSize + 1, Fresh)>>, NoToken)>>

\* A playlist of 60 videos in the window, on pages of 50 and 10, the second
\* page ending with an older video.
SixtyPlaylist ==
    <<Page([k \in 1..BatchSize |-> Item(k, Fresh)], 2),
      Page([k \in 1..11 |-> IF k <= 10 THEN Item(BatchSize + k, Fresh)
                                        ELSE Item(BatchSize + k, Old)], NoToken)>>

NormalChoices ==
    {OnePage(<<1>>), OnePage(<<1, 2>>), NotFound, QuotaExceeded,
     <<Page(<<Item(1, Fresh)>>, 2), Error(ErrNotFound)>>,
     <<Page(<<Item(1, Fresh)>>, 2), Error(ErrQuota)>>,
     <<Page(<<Item(1, Fresh), Item(2, Malformed)>>, NoToken)>>,
     <<Page(<<Item(1, Old)>>, NoToken)>>}

ShortChoices == {OnePage(<<2>>), OnePage(<<1>>), NotFound}

LiveChoices == {OnePage(<<3>>), NotFound, QuotaExceeded}

\* The remote's playlists of one channel.
World(channel_id, normal, short, live) ==
    (PlaylistId(channel_id, "NORMAL") :> normal) @@
    (PlaylistId(channel_id, "SHORT") :> short) @@
    (PlaylistId(channel_id, "LIVE") :> live)

Worlds(channel_id) ==
    {World(channel_id, n, s, l) :
        n \in NormalChoices, s \in ShortChoices, l \in LiveChoices}

FewWorlds(channel_id) ==
    {World(channel_id, OnePage(<<1>>), OnePage(<<2>>), NotFound),
     World(channel_id, NotFound, NotFound, NotFound),
     World(channel_id, <<Page(<<Item(1, Fresh)>>, 2), Error(ErrNotFound)>>,
           QuotaExceeded, NotFound)}

BigWorlds(channel_id) ==
    {World(channel_id, BigPlaylist, s, NotFound) : s \in {NotFound, OnePage(<<2>>)}}

\* An output file left by an earlier run.
OldStats ==
    [key \in {"A"} \X {"NORMAL", "SHORT", "LIVE"} |->
        [view_count |-> 100, video_count |-> 1]]

OldStore ==
    [exists |-> TRUE, header |-> 1, rows |-> <<Row("yesterday", "A", OldStats)>>]

\* build() of the client fails in no thread, in the first task's thread, or
\* in the main thread (number 0).
Config(cm, r, bf, store) ==
    [channel_map |-> cm, remote |-> r, build_fails |-> bf, csv |-> store]

Configs ==
    {Config(<<>>, EmptyDict, {}, NoStore),
     Config(<<Entry("A", XYc)>>, EmptyDict, {}, NoStore)} \cup
    {Config(<<Entry("A", UCa)>>, r, bf, NoStore) :
        r \in Worlds(UCa), bf \in {{}, {1}, {0}}} \cup
    {Config(<<Entry("A", UCa)>>, r, {}, OldStore) : r \in Worlds(UCa)} \cup
    {Config(<<Entry("A", UCa)>>, r, {}, NoStore) : r \in BigWorlds(UCa)} \cup
    {Config(<<Entry("A", UCa), Entry("B", XYc)>>, r, {}, NoStore) :
        r \in FewWorlds(UCa)} \cup
    {Config(<<Entry("A", XYc), Entry("B", UCb)>>,
            World(UCb, OnePage(<<1, 2>>), NotFound, OnePage(<<3>>)), {}, store) :
        store \in {NoStore, OldStore}} \cup
    {Config(<<Entry("A", UCa), Entry("B", UCa)>>, r, {}, NoStore) :
        r \in FewWorlds(UCa)} \cup
    {Config(<<Entry("A", UCa), Entry("B", UCb)>>, ra @@ rb, {}, NoStore) :
        ra \in FewWorlds(UCa),
        rb \in {World(UCb, NotFound, NotFound, NotFound),
                World(UCb, OnePage(<<2>>), NotFound, NotFound)}} \cup
    {Config(<<Entry("A", UCa), Entry("B", UCb)>>,
            World(UCa, SixtyPlaylist, NotFound, EmptyPlaylist) @@
            World(UCb, EmptyPlaylist, NotFound, NotFound), {}, NoStore)}

Init ==
    /\ \E c \in Configs :
          /\ channel_map = c.channel_map
          /\ remote = c.remote
          /\ build_fails = c.build_fails
          /\ csv = c.csv
    /\ map_string = <<>>
    /\ pc = "start" /\ tasks = <<>> /\ fut = <<>> /\ handled = <<>>
    /\ reported = <<>> /\ all_video_id_details = <<>>
    /\ col = IdleCollector /\ fetch = IdleFetch
    /\ all_stats = EmptyDict /\ all_channels_data = <<>>

\* if not channel_map: return
ReturnNoMap ==
    /\ pc = "start"
    /\ Falsy(channel_map)
    /\ pc' = "done"
    /\ UNCHANGED <<map_string, channel_map, remote, build_fails, csv, col, tasks, fut, handled,
                   reported, all_video_id_details, fetch, all_stats,
                   all_channels_data>>

\* The task list is built; without tasks main returns, else every task is
\* submitted to the pool and the merge loop starts.
PrepareTasks ==
    /\ pc = "start"
    /\ ~Falsy(channel_map)
    /\ tasks' = PrepareTaskList(channel_map, 1)
    /\ IF Falsy(tasks')
       THEN pc' = "done" /\ UNCHANGED <<fut, handled, reported>>
       ELSE /\ pc' = "merge"
            /\ fut' = SubmitAll(tasks')
            /\ handled' = [t \in 1..Len(tasks') |-> 0]
            /\ reported' = [t \in 1..Len(tasks') |-> NoLine]
    /\ UNCHANGED <<map_string, channel_map, remote, build_fails, csv, col,
                   all_video_id_details, fetch, all_stats, all_channels_data>>

\* A worker takes the next queued task (the queue is first in, first out; at
\* most max_workers tasks run at a time).
TaskStart(t) ==
    /\ fut[t].st = "pending"
    /\ \A u \in 1..(t - 1) : fut[u].st # "pending"
    /\ Cardinality(Running(fut)) < MaxWorkers(Len(tasks))
    /\ fut' = [fut EXCEPT ![t].st = "running"]
    /\ UNCHANGED <<map_string, channel_map, remote, build_fails, csv, col, pc, tasks, handled,
                   reported, all_video_id_details, fetch, all_stats,
                   all_channels_data>>

\* The task runs to its end in its worker and the future gets its result.
TaskFinish(t) ==
    /\ fut[t].st = "running"
    /\ fut' = [fut EXCEPT ![t] =
                 Future("done",
                        FetchPlaylistVideoIdsTask(
                            tasks[t], RemotePlaylist(remote, tasks[t].playlist_id),
                            t \in build_fails))]
    /\ UNCHANGED <<map_string, channel_map, remote, build_fails, csv, col, pc, tasks, handled,
                   reported, all_video_id_details, fetch, all_stats,
                   all_channels_data>>

\* One iteration of "for future in as_completed(future_to_task)": a finished
\* future, in whatever order they finish, is reported and, on success, merged.
MergeResult(t) ==
    /\ pc = "merge"
    /\ fut[t].st = "done"
    /\ fut' = Yield(fut, t)
    /\ handled' = [handled EXCEPT ![t] = @ + 1]
    /\ reported' = [reported EXCEPT ![t] = ReportLine(fut[t].result)]
    /\ all_video_id_details' = MergeDetails(all_video_id_details, fut[t].result)
    /\ UNCHANGED <<map_string, channel_map, remote, build_fails, csv, col, pc, tasks, fetch,
                   all_stats, all_channels_data>>

\* The check of the merged list left out: the run always goes on.
NothingDiscoveredNever(details) == FALSE

\* if not all_video_id_details
NothingDiscovered(details) == Falsy(details)

\* if not all_video_id_details: return
ReturnNoVideos ==
    /\ pc = "merge"
    /\ AsCompletedExhausted(fut)
    /\ NothingDiscovered(all_video_id_details)
    /\ pc' = "done"
    /\ UNCHANGED <<map_string, channel_map, remote, build_fails, csv, col, tasks, fut, handled,
                   reported, all_video_id_details, fetch, all_stats,
                   all_channels_data>>

\* youtube = build(...); all_stats = fetch_all_video_stats(youtube, ...): the
\* call is entered, or build raises and main ends with the exception.
CallFetch ==
    /\ pc = "merge"
    /\ AsCompletedExhausted(fut)
    /\ ~NothingDiscovered(all_video_id_details)
    /\ IF 0 \in build_fails
       THEN pc' = "crashed" /\ UNCHANGED fetch
       ELSE pc' = "fetch" /\ fetch' = NewFetch(all_video_id_details)
    /\ UNCHANGED <<map_string, channel_map, remote, build_fails, csv, col, tasks, fut, handled,
                   reported, all_video_id_details, all_stats, all_channels_data>>

\* The third pass: one row per entry of channel_map; a division by zero
\* would end main with the exception.
BuildReport ==
    /\ pc = "fetch"
    /\ fetch.status = "returned"
    /\ IF RaisingRows(channel_map, all_stats) = {}
       THEN /\ all_channels_data' = BuildRows(channel_map, all_stats)
            /\ pc' = "save"
       ELSE /\ all_channels_data' = RowsBeforeRaise(channel_map, all_stats)
            /\ pc' = "crashed"
    /\ UNCHANGED <<map_string, channel_map, remote, build_fails, csv, col, tasks, fut, handled,
                   reported, all_video_id_details, fetch, all_stats>>

\* if not all_channels_data: return; else the rows are appended to the file.
Save ==
    /\ pc = "save"
    /\ csv' = IF Falsy(all_channels_data) THEN csv
              ELSE AppendToCsv(csv, all_channels_data)
    /\ pc' = "done"
    /\ UNCHANGED <<map_string, channel_map, remote, build_fails, col, tasks, fut, handled,
                   reported, all_video_id_details, fetch, all_stats,
                   all_channels_data>>

Next ==
    \/ ReturnNoMap
    \/ PrepareTasks
    \/ \E t \in 1..Len(fut) : TaskStart(t)
    \/ \E t \in 1..Len(fut) : TaskFinish(t)
    \/ \E t \in 1..Len(fut) : MergeResult(t)
    \/ ReturnNoVideos
    \/ CallFetch
    \/ FetchBatch
    \/ FetchReturn
    \/ BuildReport
    \/ Save

Spec == Init /\ [][Next]_vars

\* The steps of the pool's workers and those of the main thread up to the
\* call of the statistics phase.
TaskStarts == \E t \in 1..Len(fut) : TaskStart(t)

TaskFinishes == \E t \in 1..Len(fut) : TaskFinish(t)

DiscoverySteps ==
    \/ ReturnNoMap
    \/ PrepareTasks
    \/ \E t \in 1..Len(fut) : MergeResult(t)
    \/ ReturnNoVideos
    \/ CallFetch

\* A run in which the pool's workers and the main thread are not held back
\* for ever: a free worker takes a queued task, a running task reaches its
\* end, and the main thread takes its next step of the discovery phase.
\* The last conjunct is weak fairness of TaskFinishes with its enabling
\* condition written out: a task can finish exactly when one is running.
FairSpec ==
    /\ Spec
    /\ WF_vars(TaskStarts)
    /\ WF_vars(DiscoverySteps)
    /\ ([]<>(Running(fut) = {}) \/ []<><<TaskFinishes>>_vars)

-----------------------------------------------------------------------------
(* SpecSequential: a run of main() of list_all_videos.py.  The playlists   *)
(* are visited one after another in the order of the two nested loops;     *)
(* tasks holds them in that order, handled marks the visited ones,         *)
(* all_channels_data is all_videos_data and csv is CSV_OUTPUT_FILE.        *)

\* One answer of the remote for every batch of the ids from offset i on.
RECURSIVE BatchAnswers(_, _)
BatchAnswers(ids, i) ==
    IF i >= Len(ids) THEN {<<>>}
    ELSE {<<r>> \o rest : r \in StatsResponses(Chunk(ids, i)),
                          rest \in BatchAnswers(ids, i + BatchSize)}

\* video_details.append({...}) for one item.
DetailRow(channel_name, video_type, item) ==
    [Date |-> today_date, ChannelName |-> channel_name, VideoType |-> video_type,
     VideoID |-> item.id,
     ViewCount |-> IF item.viewCount = NoViewCount THEN 0 ELSE item.viewCount.n]

\* The rows of one batch: none when the request raises; when an item raises,
\* the rows appended before it stay.
BatchRows(response, channel_name, video_type) ==
    IF response.kind = "error" THEN <<>>
    ELSE LET bad == {k \in 1..Len(response.items) :
                        response.items[k].viewCount = Unreadable}
             n == IF bad = {} THEN Len(response.items)
                  ELSE (CHOOSE k \in bad : \A j \in bad : k <= j) - 1
         IN  [k \in 1..n |-> DetailRow(channel_name, video_type, response.items[k])]

\* get_video_details_in_batches with the answers rs, one per batch.
RECURSIVE GetVideoDetailsInBatches(_, _, _, _)
GetVideoDetailsInBatches(rs, k, channel_name, video_type) ==
    IF k > Len(rs) THEN <<>>
    ELSE BatchRows(rs[k], channel_name, video_type)
            \o GetVideoDetailsInBatches(rs, k + 1, channel_name, video_type)

\* df.to_csv(CSV_OUTPUT_FILE, index=False): the file is written anew, with
\* its header; without rows it holds the header only.
ToCsv(rows) == [exists |-> TRUE, header |-> 1, rows |-> rows]

SeqConfigs ==
    {Config(<<>>, EmptyDict, {}, NoStore),
     Config(<<Entry("A", XYc)>>, EmptyDict, {}, NoStore)} \cup
    {Config(<<Entry("A", UCa)>>, r, {}, NoStore) : r \in Worlds(UCa)} \cup
    {Config(<<Entry("A", XYc), Entry("B", UCb)>>,
            World(UCb, OnePage(<<2>>), NotFound, QuotaExceeded), {}, NoStore)} \cup
    {Config(<<Entry("A", UCa), Entry("B", UCb)>>, ra @@ rb, {}, NoStore) :
        ra \in FewWorlds(UCa) \cup
               {World(UCa, <<Page(<<Item(1, Fresh)>>, 2), Error(ErrQuota)>>,
                      QuotaExceeded, OnePage(<<3>>))},
        rb \in {World(UCb, QuotaExceeded, NotFound, NotFound),
                World(UCb, OnePage(<<2>>), NotFound, NotFound)}}

InitSequential ==
    /\ \E c \in SeqConfigs :
          /\ channel_map = c.channel_map
          /\ remote = c.remote
          /\ build_fails = c.build_fails
          /\ csv = c.csv
    /\ map_string = <<>>
    /\ pc = "seq_start" /\ tasks = <<>> /\ fut = <<>> /\ handled = <<>>
    /\ reported = <<>> /\ all_video_id_details = <<>>
    /\ col = IdleCollector /\ fetch = IdleFetch
    /\ all_stats = EmptyDict /\ all_channels_data = <<>>

\* if not channel_map: return; else the loops start.
SeqStart ==
    /\ pc = "seq_start"
    /\ IF Falsy(channel_map)
       THEN pc' = "done" /\ UNCHANGED <<tasks, handled>>
       ELSE /\ pc' = "seq_loop"
            /\ tasks' = PrepareTaskList(channel_map, 1)
            /\ handled' = [t \in 1..Len(tasks') |-> 0]
    /\ UNCHANGED <<map_string, channel_map, remote, build_fails, csv, col, fut,
                   reported, all_video_id_details, fetch, all_stats,
                   all_channels_data>>

\* One iteration of the inner loop: the playlist is collected; an exception
\* leaving the collector would leave main(), which catches nothing; without
\* ids the loop continues, else the details of the ids are fetched and added.
SeqPlaylist ==
    /\ pc = "seq_loop"
    /\ \E t \in 1..Len(tasks) :
          /\ handled[t] = 0 /\ \A u \in 1..(t - 1) : handled[u] = 1
          /\ LET c == GetVideoIdsFromPlaylist(
                          RemotePlaylist(remote, tasks[t].playlist_id), "sequential")
             IN  /\ col' = c
                 /\ IF c.status = "raised"
                    THEN pc' = "crashed" /\ UNCHANGED <<handled, all_channels_data>>
                    ELSE /\ pc' = pc
                         /\ handled' = [handled EXCEPT ![t] = 1]
                         /\ IF Falsy(c.video_ids)
                            THEN UNCHANGED all_channels_data
                            ELSE \E rs \in BatchAnswers(c.video_ids, 0) :
                                    all_channels_data' = all_channels_data \o
                                        GetVideoDetailsInBatches(
                                            rs, 1, tasks[t].channel_name,
                                            tasks[t].video_type)
    /\ UNCHANGED <<map_string, channel_map, remote, build_fails, csv, tasks, fut,
                   reported, all_video_id_details, fetch, all_stats>>

\* After the loops: the file is written, with the rows or with the header
\* only.
SeqWrite ==
    /\ pc = "seq_loop"
    /\ \A t \in 1..Len(tasks) : handled[t] = 1
    /\ csv' = ToCsv(all_channels_data)
    /\ pc' = "done"
    /\ UNCHANGED <<map_string, channel_map, remote, build_fails, col, tasks, fut,
                   handled, reported, all_video_id_details, fetch, all_stats,
                   all_channels_data>>

NextSequential == SeqStart \/ SeqPlaylist \/ SeqWrite

SpecSequential == InitSequential /\ [][NextSequential]_vars

-----------------------------------------------------------------------------
(* SpecPool: the discovery phase of main() on MaxChannels channels, three  *)
(* tasks each, more than the pool has workers.  No playlist exists, so     *)
(* every task ends without ids.  The tasks are alike and the pool's guard  *)
(* counts them only, so of the orders in which running tasks end and       *)
(* finished futures are yielded the specification follows one: the oldest  *)
(* first.                                                                  *)

\* The name and the id of the k-th channel.
PoolName(k) == [j \in 1..k |-> "n"]
PoolChannelId(k) == <<"U", "C">> \o [j \in 1..k |-> "c"]

PoolChannelMap == [k \in 1..MaxChannels |-> Entry(PoolName(k), PoolChannelId(k))]

InitPool ==
    /\ channel_map = PoolChannelMap
    /\ remote = EmptyDict /\ build_fails \in {{}, {1}} /\ csv = NoStore
    /\ map_string = <<>>
    /\ pc = "start" /\ tasks = <<>> /\ fut = <<>> /\ handled = <<>>
    /\ reported = <<>> /\ all_video_id_details = <<>>
    /\ col = IdleCollector /\ fetch = IdleFetch
    /\ all_stats = EmptyDict /\ all_channels_data = <<>>

OldestWith(t, st) == fut[t].st = st /\ \A u \in 1..(t - 1) : fut[u].st # st

NextPool ==
    \/ PrepareTasks
    \/ \E t \in 1..Len(fut) : TaskStart(t)
    \/ \E t \in 1..Len(fut) : OldestWith(t, "running") /\ TaskFinish(t)
    \/ \E t \in 1..Len(fut) : OldestWith(t, "done") /\ MergeResult(t)
    \/ ReturnNoVideos

SpecPool == InitPool /\ [][NextPool]_vars

-----------------------------------------------------------------------------
(* SpecTop: find_top_video_by_stats (top_video_report.py) on every id list *)
(* of the bounds.  The variable fetch holds the call's frame.              *)

\* top_video = None
NoTopVideo == StatItem(0, Omit)

\* if not video_ids: return None; max_views = -1; top_video = None
NewTop(video_ids) ==
    [video_ids |-> video_ids,
     i |-> 0,                   \* the for loop's next offset
     max_views |-> 0 - 1,
     top_video |-> NoTopVideo,
     requests |-> <<>>,         \* the chunks requested, in order
     responses |-> <<>>,        \* the remote's answer to each request
     outcomes |-> <<>>,         \* per request: "ok", "failed" or "raised"
     status |-> IF Falsy(video_ids) THEN "empty" ELSE "loop"]

\* One item of the response: view_count = int(item['statistics'].get(
\* 'viewCount', 0)) may raise; if view_count > max_views the item becomes
\* the top video.
ScanTop(scan, item) ==
    IF scan.raised THEN scan
    ELSE IF item.viewCount = Unreadable THEN [scan EXCEPT !.raised = TRUE]
    ELSE LET view_count == IF item.viewCount = NoViewCount THEN 0
                           ELSE item.viewCount.n
         IN  IF view_count > scan.max_views
             THEN [scan EXCEPT !.max_views = view_count, !.top_video = item]
             ELSE scan

\* for item in videos_response.get("items", []): max_views and top_video
\* after the loop, and whether an item raised (the assignments made before
\* it stay).
ScanTops(items, max_views, top_video) ==
    ForRange(LAMBDA scan, k : ScanTop(scan, items[k]), 1, Len(items),
             [max_views |-> max_views, top_video |-> top_video, raised |-> FALSE])

\* One iteration of the for loop: one request for the chunk at offset i and
\* the processing of its response; except Exception: print and go on.
FindTopStep(f, response) ==
    LET chunk_ids == Chunk(f.video_ids, f.i)
        f1 == [f EXCEPT !.requests = Append(@, chunk_ids),
                        !.responses = Append(@, response),
                        !.i = @ + BatchSize]
    IN  IF response.kind = "error"
        THEN [f1 EXCEPT !.outcomes = Append(@, "failed")]
        ELSE LET scan == ScanTops(response.items, f.max_views, f.top_video)
             IN  [f1 EXCEPT !.max_views = scan.max_views,
                            !.top_video = scan.top_video,
                            !.outcomes = Append(@, IF scan.raised THEN "raised"
                                                   ELSE "ok")]

TopInputs ==
    SeqsUpTo({1, 2, 3}, MaxInput) \cup
    {[k \in 1..BatchSize |-> k], [k \in 1..(BatchSize + 1) |-> k],
     <<2, 3>> \o [k \in 1..BatchSize |-> k]}

InitTop ==
    /\ fetch \in {NewTop(video_ids) : video_ids \in TopInputs}
    /\ map_string = <<>> /\ channel_map = <<>> /\ remote = EmptyDict
    /\ build_fails = {}
    /\ csv = NoStore /\ pc = "find_top_video_by_stats" /\ tasks = <<>>
    /\ fut = <<>> /\ handled = <<>> /\ reported = <<>>
    /\ all_video_id_details = <<>>
    /\ col = IdleCollector /\ all_stats = EmptyDict /\ all_channels_data = <<>>

\* One iteration of the for loop over the batches.
TopBatch ==
    /\ fetch.status = "loop"
    /\ fetch.i < Len(fetch.video_ids)
    /\ \E response \in StatsResponses(Chunk(fetch.video_ids, fetch.i)) :
          fetch' = FindTopStep(fetch, response)
    /\ UNCHANGED <<map_string, channel_map, remote, build_fails, csv, col, pc, tasks, fut,
                   handled, reported, all_video_id_details, all_stats,
                   all_channels_data>>

\* return None on an empty input, return top_video after the loop.
TopReturn ==
    /\ \/ fetch.status = "empty"
       \/ fetch.status = "loop" /\ fetch.i >= Len(fetch.video_ids)
    /\ fetch' = [fetch EXCEPT !.status = "returned"]
    /\ UNCHANGED <<map_string, channel_map, remote, build_fails, csv, col, pc, tasks, fut,
                   handled, reported, all_video_id_details, all_stats,
                   all_channels_data>>

NextTop == TopBatch \/ TopReturn

SpecTop == InitTop /\ [][NextTop]_vars

-----------------------------------------------------------------------------
(* SpecParse: parse_channel_map on every string of the bounds.             *)

Alphabet == {"A", "x", ":", ",", " "}

InitParse ==
    /\ map_string \in SeqsUpTo(Alphabet, MaxString)
    /\ channel_map = <<>> /\ remote = EmptyDict /\ build_fails = {}
    /\ csv = NoStore /\ pc = "parse_channel_map" /\ tasks = <<>> /\ fut = <<>>
    /\ handled = <<>> /\ reported = <<>> /\ all_video_id_details = <<>>
    /\ col = IdleCollector /\ fetch = IdleFetch
    /\ all_stats = EmptyDict /\ all_channels_data = <<>>

\* channel_map = parse_channel_map(YT_CHANNEL_MAP_STR)
Parse ==
    /\ pc = "parse_channel_map"
    /\ channel_map' = ParseChannelMap(map_string)
    /\ pc' = "parsed"
    /\ UNCHANGED <<map_string, remote, build_fails, csv, col, tasks, fut, handled,
                   reported, all_video_id_details, fetch, all_stats,
                   all_channels_data>>

NextParse == Parse

SpecParse == InitParse /\ [][NextParse]_vars

-----------------------------------------------------------------------------
(* SpecReport: the third pass of main() after a statistics fetch that left *)
(* one key with a view sum and a video count of the bounds.                *)

\* The statistics of the ids 1..count: the first has all the views.
AnswerWithViews(views, count) ==
    StatsOk([k \in 1..count |-> StatItem(k, Views(IF k = 1 THEN views ELSE 0))])

\* fetch_all_video_stats has returned from one batch of count videos of
\* (A, NORMAL) whose views sum to views.
FetchedOnce(views, count) ==
    [FetchStep(NewFetch(BigList(count, "A", "NORMAL")), AnswerWithViews(views, count))
        EXCEPT !.status = "returned"]

InitReport ==
    /\ \E views \in 0..MaxViews, count \in 1..MaxCount :
          /\ fetch = FetchedOnce(views, count)
          /\ all_stats = FetchResult(FetchedOnce(views, count))
          /\ all_video_id_details = BigList(count, "A", "NORMAL")
    /\ map_string = <<>> /\ channel_map = <<Entry("A", UCa)>>
    /\ remote = EmptyDict /\ build_fails = {}
    /\ csv \in {NoStore, OldStore} /\ pc = "fetch" /\ tasks = <<>> /\ fut = <<>>
    /\ handled = <<>> /\ reported = <<>>
    /\ col = IdleCollector /\ all_channels_data = <<>>

NextReport == BuildReport \/ Save

SpecReport == InitReport /\ [][NextReport]_vars

-----------------------------------------------------------------------------
(* SpecRuns: successive runs of main.py (lines 297-298) on one store, each *)
(* run taken from the return of fetch_all_video_stats to the save.        *)

RunViews == {0, 7}
RunCounts == {1, 2}

InitRuns ==
    /\ \E views \in RunViews, count \in RunCounts :
          /\ fetch = FetchedOnce(views, count)
          /\ all_stats = FetchResult(FetchedOnce(views, count))
          /\ all_video_id_details = BigList(count, "A", "NORMAL")
    /\ map_string = <<>> /\ channel_map = <<Entry("A", UCa)>>
    /\ remote = EmptyDict /\ build_fails = {}
    /\ csv \in {NoStore, OldStore} /\ pc = "fetch" /\ tasks = <<>> /\ fut = <<>>
    /\ handled = <<>> /\ reported = <<>>
    /\ col = IdleCollector /\ all_channels_data = <<>>

\* The program is started again: every local of main() is fresh, the file
\* is what the run before left.
NextRun ==
    /\ pc = "done"
    /\ Len(csv.rows) < MaxRuns
    /\ \E views \in RunViews, count \in RunCounts :
          /\ fetch' = FetchedOnce(views, count)
          /\ all_stats' = FetchResult(FetchedOnce(views, count))
          /\ all_video_id_details' = BigList(count, "A", "NORMAL")
    /\ all_channels_data' = <<>>
    /\ pc' = "fetch"
    /\ UNCHANGED <<map_string, channel_map, remote, build_fails, csv, col, tasks,
                   fut, handled, reported>>

NextRuns == BuildReport \/ Save \/ NextRun

SpecRuns == InitRuns /\ [][NextRuns]_vars

-----------------------------------------------------------------------------
(* Properties of the collector (SpecCollector). *)

\* The publish time of an item in hours UTC, read off the string.
UtcHour(pub) == IF pub.zone = "+01:00" THEN pub.t - 1 ELSE pub.t

Readable(pub) == pub.zone \in {"Z", "+01:00"}

\* The responses the collector has received so far.
Received(c) == [k \in 1..Len(c.requests) |->
                  ListPlaylistItems(c.playlist, c.requests[k])]

\* The items of the pages received, as a set of <<page, position>>.
ItemsSeen(c) ==
    {pos \in (1..Len(c.requests)) \X (1..MaxItems + 1) :
        /\ Received(c)[pos[1]].kind = "page"
        /\ pos[2] <= Len(Received(c)[pos[1]].items)}

ItemAt(c, pos) == Received(c)[pos[1]].items[pos[2]]

Occurrences(seq, x) == Cardinality({k \in 1..Len(seq) : seq[k] = x})

\* The collection ran to its end without any error.
CleanReturn(c) ==
    /\ c.status = "returned"
    /\ \A k \in 1..Len(c.requests) : Received(c)[k].kind = "page"
    /\ \A pos \in ItemsSeen(c) : Readable(ItemAt(c, pos).publishedAt)

\* C2: the ids returned by the collector come only from items published at or
\* after the cutoff (no id is there more often than items of the received
\* pages with a publish time >= cutoff carry it), and after a collection
\* without error every item published exactly at the cutoff is in the list.
C2_NothingBeforeCutoff ==
    col.status # "idle" =>
        \A id \in {1, 2} :
            /\ Occurrences(col.video_ids, id) <=
                 Cardinality({pos \in ItemsSeen(col) :
                    /\ ItemAt(col, pos).videoId = id
                    /\ Readable(ItemAt(col, pos).publishedAt)
                    /\ UtcHour(ItemAt(col, pos).publishedAt) >= start_date})
            /\ CleanReturn(col) =>
                 Occurrences(col.video_ids, id) >=
                   Cardinality({pos \in ItemsSeen(col) :
                      /\ ItemAt(col, pos).videoId = id
                      /\ UtcHour(ItemAt(col, pos).publishedAt) = start_date})

\* A collection has returned an id of an item published exactly at the cutoff
\* from a playlist that also holds an item published before it.
C2_Witness ==
    /\ CleanReturn(col)
    /\ Len(col.video_ids) >= 1
    /\ \E pos \in ItemsSeen(col) : UtcHour(ItemAt(col, pos).publishedAt) < start_date
    /\ \E pos \in ItemsSeen(col) :
          /\ UtcHour(ItemAt(col, pos).publishedAt) = start_date
          /\ ItemAt(col, pos).videoId \in Range(col.video_ids)

\* The last request of the collection was answered by playlistNotFound.
EndedNotFound(c) ==
    /\ c.status \in {"returned", "raised"}
    /\ Len(c.requests) >= 1
    /\ Received(c)[Len(c.requests)].kind = "error"
    /\ IsNotFound(Received(c)[Len(c.requests)].error)

\* The ids of the in-window items of the pages before the last request, in
\* page-then-item order.
RECURSIVE IdsBefore(_, _)
IdsBefore(c, k) ==
    IF k = 0 THEN <<>>
    ELSE IdsBefore(c, k - 1) \o
         LET items == Received(c)[k].items
             kept == SelectSeq(items, LAMBDA it : UtcHour(it.publishedAt) >= start_date)
         IN  [j \in 1..Len(kept) |-> kept[j].videoId]

FirstTokenless(playlist) ==
    CHOOSE k \in 1..Len(playlist) :
        /\ playlist[k].kind = "page" /\ playlist[k].nextPageToken = NoToken
        /\ \A j \in 1..(k - 1) :
              playlist[j].kind = "page" /\ playlist[j].nextPageToken # NoToken

\* pos1 comes before pos2 in page-then-item order.
Precedes(pos1, pos2) ==
    pos1[1] < pos2[1] \/ (pos1[1] = pos2[1] /\ pos1[2] < pos2[2])

\* C20: when no request fails (and every timestamp is readable) the collector
\* requests every page up to and including the first one without a
\* continuation token, one request per page in page order, and returns
\* exactly the ids of the items of those pages published at or after the
\* cutoff, in page-then-item order, those that follow an item published
\* before the cutoff included.
C20_ScansToTokenlessPage ==
    CleanReturn(col) =>
        /\ Len(col.requests) = FirstTokenless(col.playlist)
        /\ \A k \in 1..Len(col.requests) :
                col.requests[k] = IF k = 1 THEN NoToken ELSE k
        /\ col.video_ids = IdsBefore(col, FirstTokenless(col.playlist))
        /\ \A pos \in ItemsSeen(col) :
                UtcHour(ItemAt(col, pos).publishedAt) >= start_date
                    => ItemAt(col, pos).videoId \in Range(col.video_ids)

\* A collection of two pages has returned the id of an item published after
\* the cutoff that stands on the second page, after an item of the first
\* page published before the cutoff.
C20_Witness ==
    /\ CleanReturn(col)
    /\ Len(col.requests) = 2
    /\ \E pos1, pos2 \in ItemsSeen(col) :
          /\ pos1[1] = 1 /\ pos2[1] = 2
          /\ Precedes(pos1, pos2)
          /\ UtcHour(ItemAt(col, pos1).publishedAt) < start_date
          /\ UtcHour(ItemAt(col, pos2).publishedAt) > start_date
          /\ col.video_ids = <<ItemAt(col, pos2).videoId>>

\* C21: the page requests of one collection form a strict chain: the first
\* carries no token, each later one carries the token of the response to the
\* request just before it (a page), no token is requested twice, and a
\* request is issued only when every earlier one has been answered (the
\* collection holds one request per response received).
C21_RequestsFormChain ==
    col.status # "idle" =>
        /\ Len(col.requests) >= 1 => col.requests[1] = NoToken
        /\ \A k \in 2..Len(col.requests) :
              /\ Received(col)[k - 1].kind = "page"
              /\ Received(col)[k - 1].nextPageToken # NoToken
              /\ col.requests[k] = Received(col)[k - 1].nextPageToken
        /\ \A j, k \in 1..Len(col.requests) :
              col.requests[j] = col.requests[k] => j = k
        /\ col.status = "loop" =>
              col.next_page_token =
                 IF Len(col.requests) = 0 THEN NoToken
                 ELSE Received(col)[Len(col.requests)].nextPageToken

\* A collection has issued its second request, with the token of the first
\* page.
C21_Witness ==
    /\ col.status \in {"loop", "returned", "raised"}
    /\ Len(col.requests) = 2
    /\ Received(col)[1].kind = "page"
    /\ col.requests[2] = Received(col)[1].nextPageToken

-----------------------------------------------------------------------------
(* Properties of fetch_all_video_stats (SpecFetch). *)

Keys == {"A", "B"} \X {"NORMAL", "SHORT", "LIVE"}

ViewSumOf(acc, key) == IF key \in DOMAIN acc THEN acc[key].view_count ELSE 0
VideoCountOf(acc, key) == IF key \in DOMAIN acc THEN acc[key].video_count ELSE 0

\* The ids of the items of a response (none for a failed request).
RespIds(response) ==
    IF response.kind = "ok"
    THEN {response.items[k].id : k \in 1..Len(response.items)}
    ELSE {}

AllReadable(response) ==
    /\ response.kind = "ok"
    /\ \A k \in 1..Len(response.items) : response.items[k].viewCount # Unreadable

LastRequest(g) == g.requests[Len(g.requests)]
LastResponse(g) == g.responses[Len(g.responses)]
LastOutcome(g) == g.outcomes[Len(g.outcomes)]

\* ceil(n / 50)
BatchesOf(n) == (n + BatchSize - 1) \div BatchSize

\* C3 as claimed: in a run where no item is unreadable, the video_count of
\* every key equals the number of distinct ids tagged with that key that were
\* present in a statistics response.
C3_CountIsDistinctPresent ==
    (fetch.status = "returned" /\ \A k \in 1..Len(fetch.outcomes) :
                                      fetch.outcomes[k] # "raised") =>
        \A key \in Keys :
            VideoCountOf(all_stats, key) =
              Cardinality({id \in Range(fetch.all_video_ids) :
                 /\ \E j \in 1..Len(fetch.video_id_details) :
                       /\ fetch.video_id_details[j].id = id
                       /\ KeyOf(fetch.video_id_details[j]) = key
                 /\ \E k \in 1..Len(fetch.responses) : id \in RespIds(fetch.responses[k])})

\* C4: when a request succeeds and its items are readable, the ids of the
\* chunk that the response omits raise no error, and the accumulator after
\* the batch is the one the same response gives on the input list without the
\* entries of the omitted ids; a key none of whose entries has an id of the
\* response keeps its view sum and its count.
C4_OmittedAddsNothing ==
    (Len(fetch.requests) >= 1 /\ AllReadable(LastResponse(fetch))) =>
        LET response == LastResponse(fetch)
            omitted == Range(LastRequest(fetch)) \ RespIds(response)
            details == fetch.video_id_details
            kept == SelectSeq(details, LAMBDA d : d.id \notin omitted)
        IN  /\ LastOutcome(fetch) = "ok"
            /\ fetch.stats_dict =
                 ScanStats(response.items, kept, fetch.before.stats_dict).stats_dict
            /\ fetch.video_count_dict =
                 CountProcessed(kept, RespIds(response), fetch.before.video_count_dict)
            /\ \A key \in Keys :
                 (\A j \in 1..Len(details) :
                     KeyOf(details[j]) = key => details[j].id \notin RespIds(response))
                 => /\ ViewSumOf(fetch.stats_dict, key) =
                         ViewSumOf(fetch.before.stats_dict, key)
                    /\ DictGet(fetch.video_count_dict, key, 0) =
                         DictGet(fetch.before.video_count_dict, key, 0)

\* A successful batch whose response omits an id of the chunk and holds
\* another id of the same key.
C4_Witness ==
    /\ Len(fetch.requests) >= 1
    /\ LastOutcome(fetch) = "ok"
    /\ \E i, j \in 1..Len(fetch.video_id_details) :
          /\ KeyOf(fetch.video_id_details[i]) = KeyOf(fetch.video_id_details[j])
          /\ fetch.video_id_details[i].id \in
                Range(LastRequest(fetch)) \ RespIds(LastResponse(fetch))
          /\ fetch.video_id_details[j].id \in
                Range(LastRequest(fetch)) \cap RespIds(LastResponse(fetch))
    /\ fetch.video_count_dict # EmptyDict

\* C5: a batch whose request fails leaves stats_dict and video_count_dict as
\* they were before it and the loop goes on with the next offset; at the
\* return every batch of the input has been requested, whatever failed.
C5_FailedBatchSkipped ==
    /\ (Len(fetch.requests) >= 1 /\ LastResponse(fetch).kind = "error") =>
            /\ fetch.stats_dict = fetch.before.stats_dict
            /\ fetch.video_count_dict = fetch.before.video_count_dict
            /\ fetch.i = BatchSize * Len(fetch.requests)
            /\ LastOutcome(fetch) = "failed"
    /\ fetch.status = "returned" =>
            Len(fetch.responses) = BatchesOf(Len(fetch.all_video_ids))

\* A run whose first batch failed and whose second batch was aggregated.
C5_Witness ==
    /\ fetch.status = "returned"
    /\ Len(fetch.outcomes) >= 2
    /\ fetch.outcomes[1] = "failed"
    /\ fetch.outcomes[2] = "ok"
    /\ all_stats # EmptyDict

\* C6: the k-th request holds the ids at the positions 50(k-1)+1 .. 50k of
\* the input (fewer in the last one), in input order; every batch holds 1..50
\* ids; at the return ceil(n/50) requests were issued, none for an empty input.
C6_BatchesPartitionInput ==
    fetch.status \in {"empty", "loop", "returned"} =>
        LET n == Len(fetch.all_video_ids) IN
        /\ \A k \in 1..Len(fetch.requests) :
              /\ Len(fetch.requests[k]) =
                    (IF k < BatchesOf(n) THEN BatchSize ELSE n - BatchSize * (k - 1))
              /\ Len(fetch.requests[k]) \in 1..BatchSize
              /\ \A j \in 1..Len(fetch.requests[k]) :
                    fetch.requests[k][j] = fetch.all_video_ids[BatchSize * (k - 1) + j]
        /\ Len(fetch.requests) <= BatchesOf(n)
        /\ fetch.status = "returned" => Len(fetch.requests) = BatchesOf(n)

\* 101 ids were requested in batches of 50, 50 and 1.
C6_Witness ==
    /\ fetch.status = "returned"
    /\ Len(fetch.all_video_ids) = 2 * BatchSize + 1
    /\ Len(fetch.requests) = 3
    /\ Len(fetch.requests[1]) = BatchSize
    /\ Len(fetch.requests[2]) = BatchSize
    /\ Len(fetch.requests[3]) = 1

Permuted(details, p) == [k \in 1..Len(details) |-> details[p[k]]]

\* C10 as claimed: for an input of one batch whose request succeeded with
\* readable items, every permutation of the input gives, with the same
\* response, the same accumulator.
C10_OrderIndependent ==
    (/\ fetch.status = "returned"
     /\ Len(fetch.video_id_details) <= MaxInput
     /\ fetch.outcomes = <<"ok">>) =>
        \A p \in Permutations(1..Len(fetch.video_id_details)) :
            FetchResult(FetchStep(NewFetch(Permuted(fetch.video_id_details, p)),
                                  fetch.responses[1]))
              = all_stats

\* The items of all the responses of a call.
ItemsOf(f) ==
    UNION {Range(f.responses[k].items) :
              k \in {n \in 1..Len(f.responses) : f.responses[n].kind = "ok"}}

ItemIds(response) == [n \in 1..Len(response.items) |-> response.items[n].id]

\* Every request succeeded with readable items of requested ids only, one
\* item for every occurrence of an id in the request, and an id has the same
\* views in every item.
RemoteIsSteady(f) ==
    /\ \A k \in 1..Len(f.outcomes) : f.outcomes[k] = "ok"
    /\ \A k \in 1..Len(f.requests) : \A id \in Range(f.requests[k]) :
            Occurrences(ItemIds(f.responses[k]), id) = Occurrences(f.requests[k], id)
    /\ \A it \in ItemsOf(f) : it.id \in Range(f.all_video_ids)
    /\ \A it1, it2 \in ItemsOf(f) : it1.id = it2.id => it1.viewCount = it2.viewCount

ViewsOfId(f, id) ==
    LET it == CHOOSE it \in ItemsOf(f) : it.id = id
    IN  IF it.viewCount = NoViewCount THEN 0 ELSE it.viewCount.n

\* All occurrences of an id carry the same (channel, category) tag.
SameTags(details) ==
    \A j, k \in 1..Len(details) :
        details[j].id = details[k].id => KeyOf(details[j]) = KeyOf(details[k])

\* The views of the entries 1..n of the input that carry the tag key, each
\* occurrence taken once.
RECURSIVE ViewsOfOccurrences(_, _, _)
ViewsOfOccurrences(f, key, n) ==
    IF n = 0 THEN 0
    ELSE ViewsOfOccurrences(f, key, n - 1) +
         (IF KeyOf(f.video_id_details[n]) = key
          THEN ViewsOfId(f, f.video_id_details[n].id) ELSE 0)

OccurrencesWith(details, key) == {j \in 1..Len(details) : KeyOf(details[j]) = key}

\* C19 as claimed, for occurrences with the same tag and a remote that
\* answers one item per occurrence of an id in a request: every occurrence
\* of an id contributes exactly once, so that a second occurrence adds the
\* video's views to the view sum and 1 to the video count of its key, in the
\* same and in another batch.
C19_EachOccurrenceCountsOnce ==
    (/\ fetch.status = "returned"
     /\ RemoteIsSteady(fetch)
     /\ SameTags(fetch.video_id_details)) =>
        \A key \in Keys :
            /\ VideoCountOf(all_stats, key)
                 = Cardinality(OccurrencesWith(fetch.video_id_details, key))
            /\ ViewSumOf(all_stats, key)
                 = ViewsOfOccurrences(fetch, key, Len(fetch.video_id_details))

\* int(item['statistics'].get('viewCount', 0)) of an item that can be read.
ViewsOfItem(item) == IF item.viewCount = NoViewCount THEN 0 ELSE item.viewCount.n

\* The view counts of the items 1..n of a response whose id occurs in the
\* input; an item that cannot be read has no view count to add.
RECURSIVE ViewsReturned(_, _, _)
ViewsReturned(f, items, n) ==
    IF n = 0 THEN 0
    ELSE ViewsReturned(f, items, n - 1) +
         (IF /\ items[n].id \in Range(f.all_video_ids)
             /\ items[n].viewCount # Unreadable
          THEN ViewsOfItem(items[n]) ELSE 0)

\* The same over the requests 1..k whose outcome is in `outcomes`.
RECURSIVE ViewsOfBatches(_, _, _)
ViewsOfBatches(f, outcomes, k) ==
    IF k = 0 THEN 0
    ELSE ViewsOfBatches(f, outcomes, k - 1) +
         (IF f.outcomes[k] \in outcomes
          THEN ViewsReturned(f, f.responses[k].items, Len(f.responses[k].items))
          ELSE 0)

\* The total of the view sums of the keys of an accumulator.
RECURSIVE TotalViews(_, _)
TotalViews(acc, keys) ==
    IF keys = {} THEN 0
    ELSE LET key == CHOOSE k \in keys : TRUE
         IN  acc[key].view_count + TotalViews(acc, keys \ {key})

\* A response whose items were only partly processed: an item raised.
PartlyProcessed(f) == \E k \in 1..Len(f.outcomes) : f.outcomes[k] = "raised"

\* C29 as claimed: every key of the returned accumulator is the tag of an
\* input entry, every view sum and video count is >= 0, and the total of
\* the view sums is the sum of the view counts of the items with an id of
\* the input that the successful batch requests returned, a successful
\* request being one that returned a response or, in the narrower reading,
\* one whose response was processed to its end.
C29_ViewsAreConserved ==
    (fetch.status = "returned") =>
        /\ \A key \in DOMAIN all_stats :
              /\ \E k \in 1..Len(fetch.video_id_details) :
                    KeyOf(fetch.video_id_details[k]) = key
              /\ all_stats[key].view_count >= 0
              /\ all_stats[key].video_count >= 0
        /\ \/ TotalViews(all_stats, DOMAIN all_stats)
                 = ViewsOfBatches(fetch, {"ok", "raised"}, Len(fetch.outcomes))
           \/ TotalViews(all_stats, DOMAIN all_stats)
                 = ViewsOfBatches(fetch, {"ok"}, Len(fetch.outcomes))

\* C30 as claimed: in the returned accumulator a video count of 0 implies a
\* view sum of 0, whatever batches failed and wherever they failed.
C30_NoViewsWithoutCount ==
    (fetch.status = "returned") =>
        \A key \in DOMAIN all_stats :
            all_stats[key].video_count = 0 => all_stats[key].view_count = 0

-----------------------------------------------------------------------------
(* Properties of a run of main() (Spec). *)

\* The futures whose task has ended.
Completed(f) == {t \in 1..Len(f) : f[t].st \in {"done", "yielded"}}

\* The futures the merge loop has processed with a 'success' result.
Merged(f) == {t \in 1..Len(f) : f[t].st = "yielded" /\ f[t].result.status = "success"}

\* How often the detail d is due in the merged list: once per occurrence of
\* its id in the result of a processed successful task with d's tags.
RECURSIVE DueCount(_, _)
DueCount(d, t) ==
    IF t = 0 THEN 0
    ELSE DueCount(d, t - 1) +
         (IF /\ t \in Merged(fut)
             /\ tasks[t].channel_name = d.channel_name
             /\ tasks[t].video_type = d.video_type
          THEN Occurrences(fut[t].result.video_ids, d.id)
          ELSE 0)

\* The details that are in the merged list or due in it.
DetailsInPlay ==
    Range(all_video_id_details) \cup
    UNION {{Detail(id, tasks[t].channel_name, tasks[t].video_type) :
                id \in Range(fut[t].result.video_ids)} : t \in Completed(fut)}

\* C1 as claimed: a run of main() on a channel map of N >= 1 entries that has
\* returned built N rows and appended them to the output store.
C1_OneRowPerChannel ==
    (pc = "done" /\ Len(channel_map) >= 1) =>
        LET n == Len(channel_map)
        IN  /\ Len(all_channels_data) = n
            /\ csv.exists
            /\ Len(csv.rows) >= n
            /\ SubSeq(csv.rows, Len(csv.rows) - n + 1, Len(csv.rows)) =
                 all_channels_data

RECURSIVE MergedLen(_)
MergedLen(t) ==
    IF t = 0 THEN 0
    ELSE MergedLen(t - 1) +
         (IF t \in Merged(fut) THEN Len(fut[t].result.video_ids) ELSE 0)

\* C9: the merge loop has processed every future at most once, exactly the
\* yielded ones, and printed one line for each of them; the merged list holds
\* each processed result once; the loop is over only when every submitted
\* task has ended and been processed.
C9_EachOutcomeOnce ==
    /\ pc # "start" => Len(fut) = Len(tasks) /\ Len(handled) = Len(tasks)
    /\ \A t \in 1..Len(fut) :
          /\ handled[t] <= 1
          /\ handled[t] = 1 <=> fut[t].st = "yielded"
          /\ handled[t] = 0 <=> reported[t] = NoLine
          /\ handled[t] = 1 => reported[t] = ReportLine(fut[t].result)
    /\ Len(all_video_id_details) = MergedLen(Len(fut))
    /\ (pc \notin {"start", "merge"} /\ tasks # <<>>) =>
          \A t \in 1..Len(fut) : handled[t] = 1 /\ fut[t].st = "yielded"

\* The position of the task with the tags of a detail.
TaskOfDetail(d) ==
    CHOOSE t \in 1..Len(tasks) :
        /\ tasks[t].channel_name = d.channel_name
        /\ tasks[t].video_type = d.video_type

\* A run over six tasks has returned after the loop merged the result of a
\* later task before that of an earlier one.
C9_Witness ==
    /\ pc = "done"
    /\ Len(tasks) = 6
    /\ \A t \in 1..Len(fut) : handled[t] = 1
    /\ \E i, j \in 1..Len(all_video_id_details) :
          /\ i < j
          /\ TaskOfDetail(all_video_id_details[i]) >
               TaskOfDetail(all_video_id_details[j])

\* A step of a pool worker: a future starts running or gets its result.
WorkerStep ==
    /\ Len(fut') = Len(fut)
    /\ \E t \in 1..Len(fut) :
          /\ fut'[t].st # fut[t].st
          /\ fut'[t].st \in {"running", "done"}

\* A step that writes the statistics accumulator or its returned value.
AccumulatorWritten == fetch' # fetch \/ all_stats' # all_stats

\* Every submitted task has ended and its future has been yielded.
NoTaskLeft == \A t \in 1..Len(fut) : fut[t].st = "yielded"

\* C11: the statistics accumulator exists only once every future has been
\* yielded; every step that writes it is a step of the main thread taken
\* when no task is queued or running (the pool has nothing left to do), and it
\* leaves the futures alone; a worker's step changes neither the accumulator
\* nor the merged list; the merged list changes only in a step of the merge
\* loop that yields one finished future.
C11_AccumulatorSingleThreaded ==
    /\ [](fetch.status # "idle" => NoTaskLeft /\ Running(fut) = {})
    /\ [][AccumulatorWritten =>
            /\ pc \in {"merge", "fetch"}
            /\ NoTaskLeft
            /\ Running(fut) = {}
            /\ fut' = fut
            /\ all_video_id_details' = all_video_id_details]_vars
    /\ [][WorkerStep =>
            /\ fetch' = fetch /\ all_stats' = all_stats
            /\ all_video_id_details' = all_video_id_details
            /\ pc' = pc]_vars
    /\ [][all_video_id_details' # all_video_id_details =>
            /\ pc = "merge"
            /\ \E t \in 1..Len(fut) : fut[t].st = "done" /\ fut' = Yield(fut, t)]_vars

\* The accumulator holds views after a discovery over six tasks in which the
\* results were merged out of submission order.
C11_Witness ==
    /\ pc = "fetch"
    /\ Len(fut) = 6
    /\ fetch.stats_dict # EmptyDict
    /\ Len(all_video_id_details) >= 2
    /\ TaskOfDetail(all_video_id_details[1]) > TaskOfDetail(all_video_id_details[2])

\* C12: in a run whose parsed channel map is empty no task is prepared or
\* submitted, no future exists, the collector and the statistics fetch are
\* never entered (no client is built, no request is issued), no row is built
\* and the output store stays as it was; the only step of the run is main's
\* return.
C12_EmptyMapStopsAtOnce ==
    /\ [](channel_map = <<>> =>
            /\ pc \in {"start", "done"}
            /\ tasks = <<>> /\ fut = <<>>
            /\ col = IdleCollector /\ fetch = IdleFetch
            /\ all_video_id_details = <<>> /\ all_stats = EmptyDict
            /\ all_channels_data = <<>>)
    /\ [][channel_map = <<>> =>
            /\ pc = "start" /\ pc' = "done"
            /\ csv' = csv /\ fut' = fut /\ fetch' = fetch /\ col' = col]_vars

\* A run on an empty channel map has returned.
C12_Witness ==
    /\ channel_map = <<>>
    /\ pc = "done"
    /\ ~csv.exists

\* The cells of one category in a report row.
CellOf(row, video_type) ==
    CASE video_type = "NORMAL" ->
            [count |-> row.NORMAL_Count, views |-> row.NORMAL_Views,
             avg |-> row.NORMAL_Avg_Views_Per_Video]
      [] video_type = "SHORT" ->
            [count |-> row.SHORT_Count, views |-> row.SHORT_Views,
             avg |-> row.SHORT_Avg_Views_Per_Video]
      [] video_type = "LIVE" ->
            [count |-> row.LIVE_Count, views |-> row.LIVE_Views,
             avg |-> row.LIVE_Avg_Views_Per_Video]

ZeroCell == [count |-> 0, views |-> 0, avg |-> 0]

\* The collection of the playlist ends on a playlistNotFound.
RaisesNotFound(playlist) ==
    EndedNotFound(GetVideoIdsFromPlaylist(playlist, "main"))

\* The first request for the playlist is answered by playlistNotFound.
FirstRequestNotFound(playlist) ==
    /\ ListPlaylistItems(playlist, NoToken).kind = "error"
    /\ IsNotFound(ListPlaylistItems(playlist, NoToken).error)

\* The playlist as it would be if it ended where its collection met the
\* playlistNotFound: no items when the first request failed, else the pages
\* received, the last of them without a continuation token.
EndingBeforeNotFound(playlist) ==
    LET c == GetVideoIdsFromPlaylist(playlist, "main")
        n == Len(c.requests) - 1
    IN  IF n = 0 THEN EmptyPlaylist
        ELSE [k \in 1..n |->
                IF k < n THEN Received(c)[k]
                ELSE [Received(c)[k] EXCEPT !.nextPageToken = NoToken]]

\* The tasks that have ended and whose client was built.
Looked == {t \in Completed(fut) : t \notin build_fails}

\* The rows of the report are those the accumulator gives, a key absent
\* from it being reported as count 0, view sum 0 and average 0.
RowsFollowAccumulator ==
    /\ all_channels_data # <<>> => all_channels_data = BuildRows(channel_map, all_stats)
    /\ \A k \in 1..Len(all_channels_data) : \A j \in 1..Len(VideoTypes) :
          <<all_channels_data[k].ChannelName, VideoTypes[j]>> \notin DOMAIN all_stats
              => CellOf(all_channels_data[k], VideoTypes[j]) = ZeroCell

C14_ZeroCountZeroAverage ==
    /\ \A k \in 1..Len(all_channels_data) : \A j \in 1..Len(VideoTypes) :
          CellOf(all_channels_data[k], VideoTypes[j]).count = 0 =>
              CellOf(all_channels_data[k], VideoTypes[j]).avg = 0
    /\ (pc \in {"save", "done"} /\ fetch.status = "returned") =>
          Len(all_channels_data) = Len(channel_map)
    /\ pc = "crashed" => fetch = IdleFetch /\ all_channels_data = <<>>

\* A report was built in which a category without videos stands next to one
\* with videos and views.
C14_Witness ==
    /\ pc = "done"
    /\ \E k \in 1..Len(all_channels_data) : \E i, j \in 1..Len(VideoTypes) :
          /\ CellOf(all_channels_data[k], VideoTypes[i]) = ZeroCell
          /\ CellOf(all_channels_data[k], VideoTypes[j]).count > 0
          /\ CellOf(all_channels_data[k], VideoTypes[j]).avg > 0

\* The views the items of a response carry for the ids of a set.
RECURSIVE ViewsIn(_, _, _)
ViewsIn(items, ids, k) ==
    IF k = 0 THEN 0
    ELSE ViewsIn(items, ids, k - 1) +
         (IF items[k].id \in ids /\ items[k].viewCount.kind = "count"
          THEN items[k].viewCount.n ELSE 0)

\* The views all responses of the fetch carry for the ids of a set.
RECURSIVE ViewsAnswered(_, _, _)
ViewsAnswered(f, ids, k) ==
    IF k = 0 THEN 0
    ELSE ViewsAnswered(f, ids, k - 1) +
         (IF f.responses[k].kind = "ok"
          THEN ViewsIn(f.responses[k].items, ids, Len(f.responses[k].items))
          ELSE 0)

\* Every id of the fetch's input is in the response to its batch.
AllFound(f) ==
    /\ \A k \in 1..Len(f.outcomes) : f.outcomes[k] = "ok"
    /\ \A k \in 1..Len(f.requests) : Range(f.requests[k]) \subseteq RespIds(f.responses[k])

\* The scenario: channels A and B, the discovery found 60 distinct ids, all
\* of (A, NORMAL), every one of them was in the statistics responses, and
\* their view counts sum to 12000.
SixtyScenario ==
    /\ Len(channel_map) = 2
    /\ channel_map[1].name = "A" /\ channel_map[2].name = "B"
    /\ fetch.status = "returned"
    /\ Len(fetch.video_id_details) = 60
    /\ Cardinality(Range(fetch.all_video_ids)) = 60
    /\ \A k \in 1..60 : KeyOf(fetch.video_id_details[k]) = <<"A", "NORMAL">>
    /\ AllFound(fetch)
    /\ ViewsAnswered(fetch, Range(fetch.all_video_ids), Len(fetch.responses)) = 12000

\* C16: in the scenario the accumulator holds exactly the entry
\* (A, NORMAL) = (12000, 60), the statistics were requested in batches of 50
\* and 10, and the rows, once built, hold count 60, view sum 12000 and
\* average 200.00 for (A, NORMAL) and count 0, view sum 0 and average 0 for
\* every other category of A and for B.
C16_SixtyVideosScenario ==
    SixtyScenario =>
        /\ DOMAIN all_stats = {<<"A", "NORMAL">>}
        /\ all_stats[<<"A", "NORMAL">>] = [view_count |-> 12000, video_count |-> 60]
        /\ Len(fetch.requests) = 2
        /\ Len(fetch.requests[1]) = 50 /\ Len(fetch.requests[2]) = 10
        /\ pc \in {"save", "done"} =>
              /\ Len(all_channels_data) = 2
              /\ all_channels_data[1].ChannelName = "A"
              /\ all_channels_data[2].ChannelName = "B"
              /\ CellOf(all_channels_data[1], "NORMAL") =
                    [count |-> 60, views |-> 12000, avg |-> 20000]
              /\ CellOf(all_channels_data[1], "SHORT") = ZeroCell
              /\ CellOf(all_channels_data[1], "LIVE") = ZeroCell
              /\ \A j \in 1..Len(VideoTypes) :
                    CellOf(all_channels_data[2], VideoTypes[j]) = ZeroCell

\* The run of the scenario has saved its two rows.
C16_Witness ==
    /\ SixtyScenario
    /\ pc = "done"
    /\ csv.exists
    /\ Len(csv.rows) = 2
    /\ csv.rows[1].NORMAL_Views = 12000

\* Some request of the playlist's chain is answered by an error other than
\* playlistNotFound, or by a page with a timestamp that does not parse, after
\* requests that were all answered by readable pages.
FailsWithOtherError(playlist) ==
    \E k \in 1..Len(playlist) :
        /\ \A j \in 1..(k - 1) :
              /\ playlist[j].kind = "page" /\ playlist[j].nextPageToken = j + 1
              /\ \A n \in 1..Len(playlist[j].items) :
                    Readable(playlist[j].items[n].publishedAt)
        /\ \/ playlist[k].kind = "error" /\ ~IsNotFound(playlist[k].error)
           \/ /\ playlist[k].kind = "page"
              /\ \E n \in 1..Len(playlist[k].items) :
                    ~Readable(playlist[k].items[n].publishedAt)

FailingTasks ==
    {t \in 1..Len(fut) :
        FailsWithOtherError(RemotePlaylist(remote, tasks[t].playlist_id))}

\* C23: a discovery task whose collection meets an error other than
\* playlistNotFound, on the first or on a later page, ends with an 'error'
\* result without ids, is reported as an error, and no entry of the merged
\* list carries its (channel, category); the step that merges it leaves the
\* merged list as it was; main ends with an exception only when the client of
\* the statistics phase cannot be built, never on a task's error.
C23_OtherErrorContributesNothing ==
    /\ [](\A t \in FailingTasks :
            /\ t \in Completed(fut) =>
                  /\ fut[t].result.status = "error"
                  /\ fut[t].result.video_ids = <<>>
                  /\ ~IsNotFound(fut[t].result.error)
            /\ handled[t] = 1 => reported[t].kind = "error"
            /\ \A k \in 1..Len(all_video_id_details) :
                  KeyOf(all_video_id_details[k])
                      # <<tasks[t].channel_name, tasks[t].video_type>>)
    /\ [](pc = "crashed" => 0 \in build_fails /\ NoTaskLeft)
    /\ [][\A t \in FailingTasks :
            (fut[t].st = "done" /\ fut'[t].st = "yielded")
                => all_video_id_details' = all_video_id_details]_vars

\* The statistics phase has started on the ids of another task after the
\* task of the first playlist, which raised a quota error on its second page
\* (the first page held an in-window video), was reported as an error.
C23_Witness ==
    /\ pc = "fetch"
    /\ RemotePlaylist(remote, tasks[1].playlist_id)
          = <<Page(<<Item(1, Fresh)>>, 2), Error(ErrQuota)>>
    /\ reported[1].kind = "error"
    /\ fut[1].result.video_ids = <<>>
    /\ Len(all_video_id_details) >= 1

\* The collection made by the task t, with the requests it issued.
CollectionOf(t) ==
    GetVideoIdsFromPlaylist(RemotePlaylist(remote, tasks[t].playlist_id), "main")

\* The request k of a collection did not go through: it raised, or the scan
\* of its page raised.
RequestFailed(c, k) ==
    \/ Received(c)[k].kind = "error"
    \/ /\ Received(c)[k].kind = "page"
       /\ \E n \in 1..Len(Received(c)[k].items) :
             ~Readable(Received(c)[k].items[n].publishedAt)

\* C24: no request is made again.  The statistics loop has issued one request
\* per offset 0, 50, 100, ... below its position, failed ones included, and
\* at the return one per batch of the input; every step that issues a request
\* moves on by one batch.  In the collection of every ended task no token was
\* requested twice and a request that failed is the last one.
C24_NoRequestRetried ==
    /\ [](fetch.status \in {"loop", "returned"} =>
            /\ fetch.i = BatchSize * Len(fetch.requests)
            /\ Len(fetch.outcomes) = Len(fetch.requests)
            /\ \A k \in 1..Len(fetch.requests) :
                  \A j \in 1..Len(fetch.requests[k]) :
                      fetch.requests[k][j] = fetch.all_video_ids[BatchSize * (k - 1) + j]
            /\ fetch.status = "returned" =>
                  Len(fetch.requests) = BatchesOf(Len(fetch.all_video_ids)))
    /\ [][fetch'.requests # fetch.requests =>
            /\ Len(fetch'.requests) = Len(fetch.requests) + 1
            /\ fetch'.i = fetch.i + BatchSize]_vars
    /\ [](\A t \in Completed(fut) \ build_fails :
            LET c == CollectionOf(t)
            IN  /\ \A j, k \in 1..Len(c.requests) :
                      c.requests[j] = c.requests[k] => j = k
                /\ \A k \in 1..Len(c.requests) :
                      RequestFailed(c, k) => k = Len(c.requests))

\* A run has ended in which the first of two statistics batches failed and
\* the second was answered, and the collection of the third task ended on
\* its first, failing request.
C24_Witness ==
    /\ pc = "done"
    /\ fetch.outcomes = <<"failed", "ok">>
    /\ Len(fetch.requests) = 2
    /\ fetch.requests[1] # fetch.requests[2]
    /\ Len(CollectionOf(3).requests) = 1
    /\ RequestFailed(CollectionOf(3), 1)

\* The futures whose task a worker has taken.
Started(f) == {t \in 1..Len(f) : f[t].st # "pending"}

\* C25: the tasks running at the same time are never more than the smaller
\* of the cap and the number of tasks; a task is started only while fewer
\* tasks than that run, in submission order, and once as many tasks as the
\* pool has workers were started, a further one starts only after a task has
\* ended.
C25_PoolBoundsRunningTasks ==
    /\ [](Cardinality(Running(fut)) <= Min(GlobalCap, Len(tasks)))
    /\ [][\A t \in 1..Len(fut) :
            (Len(fut') = Len(fut) /\ fut[t].st = "pending" /\ fut'[t].st = "running") =>
                /\ Cardinality(Running(fut)) < Min(GlobalCap, Len(tasks) + 4)
                /\ Started(fut) = 1..(t - 1)
                /\ t > Min(GlobalCap, Len(tasks) + 4) => Completed(fut) # {}]_vars

\* As many tasks run as the pool has workers, the last submitted one among
\* them: it was started after the first task had ended.
C25_Witness ==
    /\ Len(tasks) = 3 * MaxChannels
    /\ Cardinality(Running(fut)) = GlobalCap
    /\ fut[Len(fut)].st = "running"
    /\ Completed(fut) # {}

\* C26: while the merged discovery list is empty no step enters the
\* statistics phase, builds a client for it, builds a row or touches the
\* output store; once every task has been processed with the list still
\* empty, the only step left is main's return.
C26_EmptyDiscoveryLeavesNoTrace ==
    /\ [](all_video_id_details = <<>> =>
            /\ pc \in {"start", "merge", "done"}
            /\ fetch = IdleFetch /\ all_stats = EmptyDict
            /\ all_channels_data = <<>>)
    /\ [][all_video_id_details = <<>> => csv' = csv]_vars
    /\ [][(pc = "merge" /\ NoTaskLeft /\ all_video_id_details = <<>>) =>
            /\ pc' = "done"
            /\ all_video_id_details' = <<>>
            /\ fetch' = fetch /\ csv' = csv]_vars

\* A run has returned with nothing discovered: the first playlist held only
\* a video from before the cutoff, the second was not found, the third
\* failed; the file of an earlier run is as it was.
C26_Witness ==
    /\ pc = "done"
    /\ Len(tasks) = 3 /\ NoTaskLeft
    /\ all_video_id_details = <<>>
    /\ reported[1] = [kind |-> "found", n |-> 0]
    /\ RemotePlaylist(remote, tasks[1].playlist_id) = <<Page(<<Item(1, Old)>>, NoToken)>>
    /\ FirstRequestNotFound(RemotePlaylist(remote, tasks[2].playlist_id))
    /\ reported[3].kind = "error"
    /\ csv = OldStore

\* The entries of the channel map whose id does not begin with "UC".
InvalidChannels ==
    {k \in 1..Len(channel_map) :
        \/ Len(channel_map[k].id) < 2
        \/ SubSeq(channel_map[k].id, 1, 2) # <<"U", "C">>}

\* C27: a channel whose id does not begin with "UC" has no task, so no
\* request is made for it: no entry of the merged list and no key of the
\* accumulator carries its name; in a report that is built its row stands at
\* the channel's place with count 0, view sum 0 and average 0 in the three
\* categories.  When no channel has a valid id the run has no task and no
\* future, enters neither the collector nor the statistics phase, and its
\* steps leave the store as it is.
C27_InvalidChannelHasZeroRow ==
    /\ [](\A k \in InvalidChannels :
            LET name == channel_map[k].name
            IN  /\ \A t \in 1..Len(tasks) : tasks[t].channel_name # name
                /\ \A n \in 1..Len(all_video_id_details) :
                      all_video_id_details[n].channel_name # name
                /\ \A key \in (DOMAIN all_stats) \cup (DOMAIN fetch.stats_dict)
                              \cup (DOMAIN fetch.video_count_dict) : key[1] # name
                /\ all_channels_data # <<>> =>
                      /\ all_channels_data[k].ChannelName = name
                      /\ \A j \in 1..Len(VideoTypes) :
                            CellOf(all_channels_data[k], VideoTypes[j]) = ZeroCell)
    /\ [](InvalidChannels = 1..Len(channel_map) =>
            /\ pc \in {"start", "done"}
            /\ tasks = <<>> /\ fut = <<>>
            /\ col = IdleCollector /\ fetch = IdleFetch
            /\ all_channels_data = <<>>)
    /\ [][InvalidChannels = 1..Len(channel_map) => csv' = csv]_vars

\* A report was saved for a map whose first channel has an invalid id and
\* whose second channel has videos with views: the first row is the invalid
\* channel's, all zeros.
C27_Witness ==
    /\ pc = "done"
    /\ InvalidChannels = {1}
    /\ Len(tasks) = 3
    /\ Len(all_channels_data) = 2
    /\ all_channels_data[1].ChannelName = channel_map[1].name
    /\ \A j \in 1..Len(VideoTypes) : CellOf(all_channels_data[1], VideoTypes[j]) = ZeroCell
    /\ all_channels_data[2].NORMAL_Views > 0
    /\ csv.rows[Len(csv.rows)] = all_channels_data[2]

\* The response to the request k of a collection ends the loop: a page
\* without a continuation token, an error, or a page whose scan raises.
EndsLoop(c, k) ==
    \/ RequestFailed(c, k)
    \/ Received(c)[k].kind = "page" /\ Received(c)[k].nextPageToken = NoToken

\* C28: the collection of every ended task is over (returned or raised)
\* after finitely many requests, one per response received, and its last
\* request is the first one whose response is a page without a token, a
\* playlistNotFound or another error; when the workers and the main thread
\* are not held back for ever, every submitted task ends and main reaches the
\* statistics phase or returns.
C28_CollectorAndRunTerminate ==
    /\ [](\A t \in Completed(fut) \ build_fails :
            LET c == CollectionOf(t)
            IN  /\ c.status \in {"returned", "raised"}
                /\ Len(c.requests) \in 1..Len(c.playlist)
                /\ EndsLoop(c, Len(c.requests))
                /\ \A k \in 1..(Len(c.requests) - 1) : ~EndsLoop(c, k))
    /\ (pc = "merge") ~> (Completed(fut) = 1..Len(fut))
    /\ <>(pc \in {"fetch", "crashed", "done"})

\* Every task of a run over six playlists has ended, the first after two
\* requests, and the statistics phase has been reached.
C28_Witness ==
    /\ pc = "fetch"
    /\ Len(fut) = 6
    /\ Completed(fut) = 1..6
    /\ Len(CollectionOf(1).requests) = 2
    /\ CollectionOf(1).status = "returned"

\* The tasks 1..n run one after another, each as fetch_playlist_video_ids_task
\* runs it (own client, own collection, errors captured in the result), and
\* their results merged in task order.
RECURSIVE RunTasksInOrder(_)
RunTasksInOrder(n) ==
    IF n = 0 THEN <<>>
    ELSE MergeDetails(RunTasksInOrder(n - 1),
                      FetchPlaylistVideoIdsTask(
                          tasks[n], RemotePlaylist(remote, tasks[n].playlist_id),
                          n \in build_fails))

\* Two lists hold the same elements the same number of times.
SameBag(a, b) ==
    \A d \in Range(a) \cup Range(b) : Occurrences(a, d) = Occurrences(b, d)

\* C31: once the merge loop has taken every future, whatever the order in
\* which the workers ran and finished the tasks, the merged discovery list
\* holds, as a multiset of (video id, channel, category), exactly the entries
\* of the list that running the same tasks one after another gives; and the
\* result of every finished task is the one the task gives when run alone.
C31_MergedListIsSequentialList ==
    /\ (pc # "start" /\ AsCompletedExhausted(fut)) =>
          SameBag(all_video_id_details, RunTasksInOrder(Len(tasks)))
    /\ \A t \in Completed(fut) :
          fut[t].result =
            FetchPlaylistVideoIdsTask(
                tasks[t], RemotePlaylist(remote, tasks[t].playlist_id),
                t \in build_fails)

\* Six tasks all merged, two of them in the reverse of the task order, so
\* that the merged list is not the sequential one as a sequence.
C31_Witness ==
    /\ pc = "fetch"
    /\ Len(fut) = 6
    /\ AsCompletedExhausted(fut)
    /\ Len(all_video_id_details) >= 2
    /\ all_video_id_details # RunTasksInOrder(Len(tasks))

-----------------------------------------------------------------------------
(* Properties of the third pass (SpecReport). *)

Abs(n) == IF n < 0 THEN -n ELSE n

\* C15: in every row and category with a video count above 0 the average, in
\* hundredths, is a hundredth nearest to view sum / video count: it differs
\* from the quotient by at most half a hundredth.
C15_AverageIsRoundedQuotient ==
    \A k \in 1..Len(all_channels_data) : \A j \in 1..Len(VideoTypes) :
        LET cell == CellOf(all_channels_data[k], VideoTypes[j])
        IN  cell.count > 0 =>
                2 * Abs(100 * cell.views - cell.avg * cell.count) <= cell.count

\* A report was saved whose quotient 1/40 = 0.025 lies exactly between two
\* hundredths and is no binary float; the row holds 0.03.
C15_Witness ==
    /\ pc = "done"
    /\ Len(all_channels_data) = 1
    /\ all_channels_data[1].NORMAL_Count = 40
    /\ all_channels_data[1].NORMAL_Views = 1
    /\ all_channels_data[1].NORMAL_Avg_Views_Per_Video = 3


-----------------------------------------------------------------------------
(* Properties of parse_channel_map (SpecParse). *)

Count(s, ch) == Cardinality({i \in 1..Len(s) : s[i] = ch})

\* An entry is well formed when it holds exactly one ':'.
WellFormed(e) == Count(e, ":") = 1

WellFormedEntries(s) == SelectSeq(Split(s, ","), WellFormed)

ColonAt(e) == CHOOSE i \in 1..Len(e) : e[i] = ":"

\* x without the blanks before its first and after its last other character.
Trimmed(x) ==
    LET I == {i \in 1..Len(x) : x[i] # " "}
    IN  IF I = {} THEN <<>>
        ELSE SubSeq(x, CHOOSE i \in I : \A j \in I : i <= j,
                       CHOOSE i \in I : \A j \in I : i >= j)

NameOf(e) == Trimmed(SubSeq(e, 1, ColonAt(e) - 1))

IdOf(e) == Trimmed(SubSeq(e, ColonAt(e) + 1, Len(e)))

FirstWith(wf, name) ==
    CHOOSE j \in 1..Len(wf) :
        NameOf(wf[j]) = name /\ \A i \in 1..(j - 1) : NameOf(wf[i]) # name

LastWith(wf, name) ==
    CHOOSE j \in 1..Len(wf) :
        NameOf(wf[j]) = name /\ \A i \in (j + 1)..Len(wf) : NameOf(wf[i]) # name

\* C17 as stated: the result holds exactly the well-formed entries of the
\* input, each with its name and id trimmed.
C17_ExactlyWellFormedEntries ==
    pc = "parsed" =>
        LET wf == WellFormedEntries(map_string)
        IN  channel_map = [k \in 1..Len(wf) |-> Entry(NameOf(wf[k]), IdOf(wf[k]))]

\* C17: parse_channel_map returns on every configuration string; the result
\* holds one entry per trimmed name of the well-formed entries, in the order
\* of the names' first occurrences, each with the trimmed id of the last
\* well-formed entry of that name, and nothing else.
C17_OneEntryPerWellFormedName ==
    /\ pc \in {"parse_channel_map", "parsed"}
    /\ pc = "parsed" =>
        LET wf == WellFormedEntries(map_string)
        IN  /\ \A k, l \in 1..Len(channel_map) :
                    channel_map[k].name = channel_map[l].name => k = l
            /\ {channel_map[k].name : k \in 1..Len(channel_map)}
                    = {NameOf(wf[j]) : j \in 1..Len(wf)}
            /\ \A k \in 1..Len(channel_map) :
                    channel_map[k].id = IdOf(wf[LastWith(wf, channel_map[k].name)])
            /\ \A k, l \in 1..Len(channel_map) :
                    k < l => FirstWith(wf, channel_map[k].name)
                                < FirstWith(wf, channel_map[l].name)

\* "A:, A:x" was parsed: two well-formed entries of the name A, the second
\* with a blank to trim; the result is the one entry A -> x.
C17_Witness ==
    /\ pc = "parsed"
    /\ map_string = <<"A", ":", ",", " ", "A", ":", "x">>
    /\ channel_map = <<Entry(<<"A">>, <<"x">>)>>


-----------------------------------------------------------------------------
(* Properties of successive runs (SpecRuns). *)

IsPrefix(s, t) == Len(s) <= Len(t) /\ SubSeq(t, 1, Len(s)) = s

\* C18: no step of any run changes or removes a stored row; the step that
\* saves leaves the file with the rows it held followed by the rows of this
\* run; a header line is written by a step exactly when the step finds the
\* file absent, so a file that exists holds exactly one header line.
C18_StoreIsAppendOnly ==
    /\ [](csv.exists => csv.header = 1)
    /\ [][/\ IsPrefix(csv.rows, csv'.rows)
          /\ csv.exists => (csv'.exists /\ csv'.header = csv.header)
          /\ csv' # csv =>
                /\ pc = "save" /\ pc' = "done"
                /\ csv'.rows = csv.rows \o all_channels_data
                /\ csv'.header = IF csv.exists THEN csv.header ELSE 1]_vars

\* Three runs have saved: the first found no file, and the file holds one
\* header line and the three rows in the order of the runs.
C18_Witness ==
    /\ pc = "done"
    /\ csv.exists /\ csv.header = 1
    /\ Len(csv.rows) = 3
    /\ csv.rows[1].Date = today_date
    /\ csv.rows[1].NORMAL_Views = 7 /\ csv.rows[2].NORMAL_Views = 0
    /\ csv.rows[3] = all_channels_data[1]


-----------------------------------------------------------------------------
(* Properties of a run of list_all_videos.py (SpecSequential). *)

\* The collection met an error other than playlistNotFound: its last request
\* raised one, or an item of its last page has a timestamp that does not
\* parse.
HitOtherError(c) ==
    /\ c.status \in {"returned", "raised"}
    /\ Len(c.requests) >= 1
    /\ LET last == Received(c)[Len(c.requests)]
       IN  \/ last.kind = "error" /\ ~IsNotFound(last.error)
           \/ /\ last.kind = "page"
              /\ \E k \in 1..Len(last.items) : ~Readable(last.items[k].publishedAt)

\* The ids of the in-window items that come before the error: those of the
\* pages before the last request and, when an item of the last page raised,
\* those of the items before it.
CollectedUntilError(c) ==
    LET last == Received(c)[Len(c.requests)]
    IN  IdsBefore(c, Len(c.requests) - 1) \o
        (IF last.kind = "error" THEN <<>>
         ELSE LET bad == CHOOSE k \in 1..Len(last.items) :
                            /\ ~Readable(last.items[k].publishedAt)
                            /\ \A j \in 1..(k - 1) : Readable(last.items[j].publishedAt)
                  kept == SelectSeq(SubSeq(last.items, 1, bad - 1),
                                    LAMBDA it : UtcHour(it.publishedAt) >= start_date)
              IN  [j \in 1..Len(kept) |-> kept[j].videoId])

\* The playlist visited last.
LastVisited == CHOOSE t \in 1..Len(tasks) :
                  handled[t] = 1 /\ \A u \in (t + 1)..Len(tasks) : handled[u] = 0

RowsOfTask(rows, task) ==
    SelectSeq(rows, LAMBDA row : /\ row.ChannelName = task.channel_name
                                 /\ row.VideoType = task.video_type)

\* C22 as claimed: a collection that meets an error other than
\* playlistNotFound raises it again, and nothing of that playlist is
\* processed: the output holds no row of it.
C22_OtherErrorIsReRaised ==
    (pc = "seq_loop" /\ HitOtherError(col)) =>
        /\ col.status = "raised"
        /\ RowsOfTask(all_channels_data, tasks[LastVisited]) = <<>>

\* C22: in the sequential script a collection that meets an error other than
\* playlistNotFound does not raise: it returns the ids collected before the
\* error, and these are processed like the ids of any playlist (every row of
\* the playlist is of an id the remote answered for them); the run is not
\* ended by the error, visits every playlist and writes its output.
C22_OtherErrorEndsCollectionOnly ==
    /\ pc # "crashed"
    /\ (pc = "seq_loop" /\ HitOtherError(col)) =>
          /\ col.status = "returned"
          /\ col.video_ids = CollectedUntilError(col)
          /\ \A k \in 1..Len(all_channels_data) :
                (/\ all_channels_data[k].ChannelName = tasks[LastVisited].channel_name
                 /\ all_channels_data[k].VideoType = tasks[LastVisited].video_type)
                    => all_channels_data[k].VideoID
                          \in Range(col.video_ids) \cup {Stranger.id}
    /\ (pc = "done" /\ ~Falsy(channel_map)) =>
          /\ \A t \in 1..Len(tasks) : handled[t] = 1
          /\ csv.exists /\ csv.header = 1
          /\ csv.rows = all_channels_data

\* The run is over: the first playlist of channel A gave a page with video 1
\* and then a quota error; the output holds a row of video 1 of that playlist
\* and a row of channel B, visited after it.
C22_Witness ==
    /\ pc = "done"
    /\ Len(channel_map) = 2
    /\ RemotePlaylist(remote, tasks[1].playlist_id)
          = <<Page(<<Item(1, Fresh)>>, 2), Error(ErrQuota)>>
    /\ \E k \in 1..Len(csv.rows) :
          /\ csv.rows[k].ChannelName = "A" /\ csv.rows[k].VideoType = "NORMAL"
          /\ csv.rows[k].VideoID = 1
    /\ \E k \in 1..Len(csv.rows) : csv.rows[k].ChannelName = "B"

-----------------------------------------------------------------------------
(* Properties of find_top_video_by_stats (SpecTop). *)

\* The items of the responses to the requests 1..k whose outcome is in
\* `outcomes`, in batch-then-response order.
RECURSIVE ItemsOfBatches(_, _, _)
ItemsOfBatches(f, outcomes, k) ==
    IF k = 0 THEN <<>>
    ELSE ItemsOfBatches(f, outcomes, k - 1) \o
         (IF f.outcomes[k] \in outcomes THEN f.responses[k].items ELSE <<>>)

\* The items that have a view count.
WithViewCount(items) == SelectSeq(items, LAMBDA it : it.viewCount # Unreadable)

\* The first item of the greatest view count, NoTopVideo for no item.
FirstMaximum(items) ==
    IF items = <<>> THEN NoTopVideo
    ELSE items[CHOOSE k \in 1..Len(items) :
                 /\ \A j \in 1..Len(items) :
                       ViewsOfItem(items[j]) <= ViewsOfItem(items[k])
                 /\ \A j \in 1..(k - 1) :
                       ViewsOfItem(items[j]) < ViewsOfItem(items[k])]

ClaimedTop(f, outcomes) ==
    FirstMaximum(WithViewCount(ItemsOfBatches(f, outcomes, Len(f.outcomes))))

\* A response whose items were only partly scanned: an item raised.
PartlyScanned(f) == \E k \in 1..Len(f.outcomes) : f.outcomes[k] = "raised"

\* C32 as claimed: the call returns the first item of the greatest view
\* count among the items returned by the batches whose request succeeded,
\* and None exactly when there is no such item (the input is empty or no
\* successful batch returned an item); a successful request being one that
\* returned a response or, in the narrower reading, one whose response was
\* processed to its end.
C32_ReturnsFirstMaximum ==
    (fetch.status = "returned") =>
        \/ fetch.top_video = ClaimedTop(fetch, {"ok", "raised"})
        \/ fetch.top_video = ClaimedTop(fetch, {"ok"})

=============================================================================
